---------------------------- MODULE Spec2Model ----------------------------
(***************************************************************************)
(* State-machine model of the grid co-simulation engine of                 *)
(* src/simulator_pflow_3.py: the device classes (SensorSim, PhasorSim,     *)
(* SmartmeterSim, ProberSim, ActuatorSim) and the engine PFlowSim (init,   *)
(* create, schedule_events, the disturbance effects, step, get_data).      *)
(*                                                                         *)
(* Conventions.                                                            *)
(*  - A Python value that may be None is a sequence of length <= 1:        *)
(*    <<>> is None and <<x>> is the value x.                               *)
(*  - A timestamp is a record [t, eps]: the integer time and the number    *)
(*    of time_diff_resolution (1e-9) increments added to it.               *)
(*  - The PriorityQueue next_steps is a sorted sequence (a multiset with   *)
(*    its minimum at the head), which is all queue[0], put and get show.   *)
(*  - The power-flow engine (SimDSS / opendssdirect) is the record dssObj; *)
(*    an electrical reading is the snapshot of that record.                *)
(*  - The diagnostic level is verbose = 0, as the demo configures every    *)
(*    simulator and device, so the print branches are not taken.           *)
(*  - An exception that leaves step unwinds to the orchestrator and ends   *)
(*    the run: raised records it and no operation follows.                 *)
(*  - step_count and total_exec_time only feed finalize's report and are   *)
(*    left out, as is the write-only cache self.data.                      *)
(***************************************************************************)
EXTENDS Integers, Sequences, FiniteSets, TLC

(***************************************************************************)
(* Bounds of the model                                                     *)
(***************************************************************************)
\* step times are the multiples of TimeUnit up to MaxTick * TimeUnit
TimeUnit == 100
MaxTick == 6
\* horizon handed to schedule_events (604800 in the source, cut down here)
SimDuration == 300
\* consecutive step calls with the same time
MaxDup == 2
\* length of the value list one actuator receives in one step
MaxInputs == 2
\* periods and times of the single-device specification
MaxPeriod == 3
MaxSampleTime == 6
\* schedule_events on its own: the largest horizon and the largest interval
MaxHorizon == 4
MaxInterval == 3

Times == {k * TimeUnit : k \in 0..MaxTick}
\* the step times of the specification with actuator inputs
ShortTimes == {k * TimeUnit : k \in 0..(MaxTick \div 2)}

(***************************************************************************)
(* Program constants                                                       *)
(***************************************************************************)
verbose == 0
FaultDuration == 100
LoadDuration == 500

\* inputs of init: loadgen_interval (default 1, 80 and 1000 in the demo),
\* event_interval (300 in the demo, 10000 by default)
LoadgenIntervals == {80, 1000}
EventIntervals == {300, 10000}

\* inputs of create: the entity ids and models the demo builds, with periods
Models == {"Sensor", "Phasor", "Smartmeter", "Prober", "Actuator"}
EIDS == {"Sensor_1", "Phasor_1", "SmartMeter_1", "Prober_1.0.1", "Actuator_1"}
StepSizes == {200, 300}

\* the text of an entity id that step and get_data search with find()
EidKind(eid) ==
    CASE eid = "Sensor_1" -> "Sensor"
      [] eid = "Phasor_1" -> "Phasor"
      [] eid = "SmartMeter_1" -> "SmartMeter"
      [] eid = "Prober_1.0.1" -> "Prober"
      [] eid = "Actuator_1" -> "Actuator"

\* eid.find(sub) > -1
Find(eid, sub) == EidKind(eid) = sub

\* the model the demo creates under each entity id
ModelOf(eid) ==
    CASE eid = "Sensor_1" -> "Sensor"
      [] eid = "Phasor_1" -> "Phasor"
      [] eid = "SmartMeter_1" -> "Smartmeter"
      [] eid = "Prober_1.0.1" -> "Prober"
      [] eid = "Actuator_1" -> "Actuator"

None == <<>>
Some(x) == <<x>>

VARIABLES
    initialized,        \* init has run (dssObj, verbose, ... exist)
    instances,          \* self.instances: eid -> device object
    order,              \* the keys of self.instances in insertion order
    loadgen_interval,   \* self.loadgen_interval
    event_interval,     \* self.event_interval
    enable_events,      \* self.enable_events
    time,               \* self.time
    prev_step,          \* self.prev_step
    next_step,          \* self.next_step
    next_steps,         \* self.next_steps (PriorityQueue)
    scheduled_events,   \* self.scheduled_events
    active_events,      \* self.active_events
    dssObj,             \* the power-flow engine's state
    ret,                \* what the last call returned
    raised,             \* the exception that ended the run, "" if none
    trace,              \* what the last step got and did: inputs, load updates,
                        \* events fired, setControl calls
    planned_events      \* the schedule as init generated it (history)

vars == <<initialized, instances, order, loadgen_interval, event_interval, enable_events,
          time, prev_step, next_step, next_steps, scheduled_events,
          active_events, dssObj, ret, raised, trace, planned_events>>


(***************************************************************************)
(* The power-flow engine                                                   *)
(***************************************************************************)
\* state of the circuit after SimDSS(topofile, nwlfile, ilpqfile)
NewDSS ==
    [tap   |-> 0,           \* last tap orientation given to setTrafoTap
     line  |-> "original",  \* impedance of line 6054-6110
     load  |-> "original",  \* load 6110.1
     loads |-> 0]           \* number of setLoads calls so far

\* objDSS.getCktElementState: the electrical quantity the circuit state gives
getCktElementState(dss) == [dss |-> dss, noise |-> 0]

\* objDSS.setTrafoTap(elem, tapOrientation = value, tapUnits = 1)
setTrafoTap(dss, value) == [dss EXCEPT !.tap = value]

\* dssObj.setLoads(objLoadGen.readLoads(False)), cnt times
setLoads(dss, cnt) == [dss EXCEPT !.loads = @ + cnt]

(***************************************************************************)
(* Device classes                                                          *)
(***************************************************************************)
\* draws that do not depend on the error of the device
NoiseDraws_Floor(error) == {-1, 0, 1}

\* np.random.normal(0, error, 1): the draws a device of that error can get
NoiseDraws(error) == IF error = 0 THEN {0} ELSE {-1, 0, 1}

\* PhasorSim.addNoise / SmartmeterSim.addNoise
addNoise(x, noise) == [x EXCEPT !.noise = @ + noise]

\* the object a constructor returns
NewDevice(cls, eid, step_size, error) ==
    [cls |-> cls, idt |-> eid, step_size |-> step_size, error |-> error,
     priorValue |-> None, priorTime |-> None]

\* SensorSim.updateValues returning the next period at every time
SensorUpdateValues_AlwaysNext(dev, t, dss) ==
    IF 0 = t % dev.step_size
    THEN [dev |-> [dev EXCEPT !.priorTime = Some([t |-> t, eps |-> 1]),
                              !.priorValue = Some(getCktElementState(dss))],
          ret |-> Some(t + dev.step_size)]
    ELSE [dev |-> [dev EXCEPT !.priorTime = None, !.priorValue = None],
          ret |-> Some(t + dev.step_size)]

\* SensorSim.updateValues: [dev, ret]
SensorUpdateValues(dev, t, dss) ==
    IF 0 = t % dev.step_size
    THEN [dev |-> [dev EXCEPT !.priorTime = Some([t |-> t, eps |-> 1]),
                              !.priorValue = Some(getCktElementState(dss))],
          ret |-> Some(t + dev.step_size)]
    ELSE [dev |-> [dev EXCEPT !.priorTime = None, !.priorValue = None],
          ret |-> Some(-1)]

\* PhasorSim.updateValues with a wake time that moves with the noise drawn
PhasorUpdateValues_NoisyWake(dev, t, dss, noise) ==
    IF 0 = t % dev.step_size
    THEN [dev |-> [dev EXCEPT
                     !.priorTime = Some([t |-> t, eps |-> 1]),
                     !.priorValue = Some([TYPE |-> "Phasor",
                                          V |-> addNoise(getCktElementState(dss), noise),
                                          TS |-> None])],
          ret |-> Some(t + dev.step_size + noise)]
    ELSE [dev |-> [dev EXCEPT !.priorTime = None, !.priorValue = None],
          ret |-> Some(-1)]

\* PhasorSim.updateValues
PhasorUpdateValues(dev, t, dss, noise) ==
    IF 0 = t % dev.step_size
    THEN [dev |-> [dev EXCEPT
                     !.priorTime = Some([t |-> t, eps |-> 1]),
                     !.priorValue = Some([TYPE |-> "Phasor",
                                          V |-> addNoise(getCktElementState(dss), noise),
                                          TS |-> None])],
          ret |-> Some(t + dev.step_size)]
    ELSE [dev |-> [dev EXCEPT !.priorTime = None, !.priorValue = None],
          ret |-> Some(-1)]

\* SmartmeterSim.updateValues sampling on step_size + randomTime, the test its
\* comment keeps (randomTime = 1)
SmartmeterUpdateValues_RandomTime(dev, t, dss, noise) ==
    IF 0 = t % (dev.step_size + 1)
    THEN [dev |-> [dev EXCEPT
                     !.priorTime = Some([t |-> t, eps |-> 1]),
                     !.priorValue = Some([TYPE |-> "Smartmeter",
                                          V |-> addNoise(getCktElementState(dss), noise),
                                          TS |-> None])],
          ret |-> Some(t + dev.step_size)]
    ELSE [dev |-> [dev EXCEPT !.priorTime = None, !.priorValue = None],
          ret |-> Some(-1)]

\* SmartmeterSim.updateValues
SmartmeterUpdateValues(dev, t, dss, noise) ==
    IF 0 = t % dev.step_size
    THEN [dev |-> [dev EXCEPT
                     !.priorTime = Some([t |-> t, eps |-> 1]),
                     !.priorValue = Some([TYPE |-> "Smartmeter",
                                          V |-> addNoise(getCktElementState(dss), noise),
                                          TS |-> None])],
          ret |-> Some(t + dev.step_size)]
    ELSE [dev |-> [dev EXCEPT !.priorTime = None, !.priorValue = None],
          ret |-> Some(-1)]

\* ProberSim.updateValues without its else branch
ProberUpdateValues_KeepLast(dev, t, dss) ==
    IF 0 = t % dev.step_size
    THEN [dev |-> [dev EXCEPT !.priorTime = Some([t |-> t, eps |-> 0]),
                              !.priorValue = Some(getCktElementState(dss))],
          ret |-> None]
    ELSE [dev |-> dev, ret |-> None]

\* ProberSim.updateValues: no return statement, so it returns None
ProberUpdateValues(dev, t, dss) ==
    IF 0 = t % dev.step_size
    THEN [dev |-> [dev EXCEPT !.priorTime = Some([t |-> t, eps |-> 0]),
                              !.priorValue = Some(getCktElementState(dss))],
          ret |-> None]
    ELSE [dev |-> [dev EXCEPT !.priorTime = None, !.priorValue = None],
          ret |-> None]

\* updateValues of the device's class
updateValues(dev, t, dss, noise) ==
    CASE dev.cls = "Sensor" -> SensorUpdateValues(dev, t, dss)
      [] dev.cls = "Phasor" -> PhasorUpdateValues(dev, t, dss, noise)
      [] dev.cls = "Smartmeter" -> SmartmeterUpdateValues(dev, t, dss, noise)
      [] dev.cls = "Prober" -> ProberUpdateValues(dev, t, dss)

\* getLastValue of a sensor or prober resetting the pair as the actuator's
PlainGetLastValue_Reset(dev) ==
    [dev |-> [dev EXCEPT !.priorValue = None, !.priorTime = None],
     value |-> dev.priorValue, time |-> dev.priorTime]

\* SensorSim.getLastValue, ProberSim.getLastValue: [dev, value, time]
PlainGetLastValue(dev) ==
    [dev |-> dev, value |-> dev.priorValue, time |-> dev.priorTime]

\* getLastValue of a phasor or smart meter resetting the pair as the
\* actuator's
DictGetLastValue_Reset(dev) ==
    LET d == IF dev.priorValue # None
             THEN [dev EXCEPT !.priorValue = Some([@[1] EXCEPT !.TS = dev.priorTime])]
             ELSE dev
    IN [dev |-> [dev EXCEPT !.priorValue = None, !.priorTime = None],
        value |-> d.priorValue, time |-> d.priorTime]

\* PhasorSim.getLastValue, SmartmeterSim.getLastValue: the payload gets its TS
DictGetLastValue(dev) ==
    LET d == IF dev.priorValue # None
             THEN [dev EXCEPT !.priorValue = Some([@[1] EXCEPT !.TS = dev.priorTime])]
             ELSE dev
    IN [dev |-> d, value |-> d.priorValue, time |-> d.priorTime]

\* setControl that keeps a pair nobody has read yet
setControl_KeepPending(dev, value, t, dss) ==
    LET tap == value # None /\ value # Some(0)
    IN [dev |-> IF dev.priorTime # None THEN dev
                ELSE [dev EXCEPT !.priorTime = Some([t |-> t, eps |-> 0]),
                                 !.priorValue = value],
        dss |-> IF tap THEN setTrafoTap(dss, value[1]) ELSE dss,
        tapped |-> tap]

\* setControl stamping as the measurement devices do, time plus epsilon
setControl_Stamped(dev, value, t, dss) ==
    LET tap == value # None /\ value # Some(0)
    IN [dev |-> [dev EXCEPT !.priorTime = Some([t |-> t, eps |-> 1]),
                            !.priorValue = value],
        dss |-> IF tap THEN setTrafoTap(dss, value[1]) ELSE dss,
        tapped |-> tap]

\* setControl that only tests value != None before it sets the tap
setControl_TapOnZero(dev, value, t, dss) ==
    LET tap == value # None
    IN [dev |-> [dev EXCEPT !.priorTime = Some([t |-> t, eps |-> 0]),
                            !.priorValue = value],
        dss |-> IF tap THEN setTrafoTap(dss, value[1]) ELSE dss,
        tapped |-> tap]

\* ActuatorSim.setControl(value, time): value is None or Some(integer);
\* [dev, dss, tapped]: tapped tells whether setTrafoTap was called
setControl(dev, value, t, dss) ==
    LET tap == value # None /\ value # Some(0)
    IN [dev |-> [dev EXCEPT !.priorTime = Some([t |-> t, eps |-> 0]),
                            !.priorValue = value],
        dss |-> IF tap THEN setTrafoTap(dss, value[1]) ELSE dss,
        tapped |-> tap]

\* getLastValue of an actuator without the reset
ActuatorGetLastValue_NoReset(dev) ==
    [dev |-> dev, value |-> dev.priorValue, time |-> dev.priorTime]

\* ActuatorSim.getLastValue: returns the pair and resets it
ActuatorGetLastValue(dev) ==
    [dev |-> [dev EXCEPT !.priorValue = None, !.priorTime = None],
     value |-> dev.priorValue, time |-> dev.priorTime]

\* getLastValue of the device's class
getLastValue(dev) ==
    CASE dev.cls = "Actuator" -> ActuatorGetLastValue(dev)
      [] dev.cls \in {"Phasor", "Smartmeter"} -> DictGetLastValue(dev)
      [] dev.cls \in {"Sensor", "Prober"} -> PlainGetLastValue(dev)


(***************************************************************************)
(* PFlowSim: construction, init, create                                    *)
(***************************************************************************)
\* one entry of self.scheduled_events
Event(t, func, args, type) == [time |-> t, func |-> func, args |-> args, type |-> type]

\* possible_events of schedule_events: (effect, target, duration, inverse effect)
possible_events ==
    <<[func |-> "apply_fault", args |-> "6054-6110", duration |-> FaultDuration,
       resolution |-> "remove_fault"],
      [func |-> "change_load", args |-> "6110.1", duration |-> LoadDuration,
       resolution |-> "restore_load"]>>

\* number of passes of the while loop of schedule_events
NumStarts(sim_duration, interval) == (sim_duration \div interval) + 1

\* the while loop of schedule_events; choices[i] is the i-th random.choice
RECURSIVE ScheduleLoop(_, _, _, _, _, _)
ScheduleLoop(events, current_time, sim_duration, interval, choices, i) ==
    IF current_time <= sim_duration
    THEN LET e == possible_events[choices[i]]
             start == Event(current_time, e.func, e.args, "start")
             resolution == Event(current_time + e.duration, e.resolution, e.args, "end")
         IN ScheduleLoop(events \o <<start, resolution>>, current_time + interval,
                         sim_duration, interval, choices, i + 1)
    ELSE events

\* schedule_events with the first start one interval late
schedule_events_FromInterval(events, sim_duration, interval, choices) ==
    ScheduleLoop(events, interval, sim_duration, interval, choices, 1)

\* PFlowSim.schedule_events: appends to the schedule it is given
schedule_events(events, sim_duration, interval, choices) ==
    ScheduleLoop(events, 0, sim_duration, interval, choices, 1)

\* the test event init puts in the schedule before it calls schedule_events
TestEvent == Event(0, "apply_fault", "Line.611", "start")

NoTrace == [inputs |-> <<>>, loadGen_cnt |-> 0, fired |-> <<>>, controls |-> <<>>,
            dup |-> 0, fail |-> [event |-> 0, partial |-> FALSE, read |-> {}]]

\* PFlowSim.__init__
Init ==
    /\ initialized = FALSE
    /\ instances = <<>>
    /\ order = <<>>
    /\ loadgen_interval = 1
    /\ event_interval = 10000
    /\ enable_events = 0
    /\ time = -1
    /\ prev_step = -1
    /\ next_step = 0
    /\ next_steps = <<>>
    /\ scheduled_events = <<>>
    /\ active_events = {}
    /\ dssObj = NewDSS
    /\ ret = [op |-> "__init__", val |-> None]
    /\ raised = ""
    /\ trace = NoTrace
    /\ planned_events = <<>>

\* init putting its test event in the schedule in either mode
init_TestEventAlways(lg, enable, interval, choices) ==
    /\ ~initialized
    /\ raised = ""
    /\ initialized' = TRUE
    /\ loadgen_interval' = lg
    /\ event_interval' = interval
    /\ enable_events' = enable
    /\ scheduled_events' =
         IF enable # 0
         THEN schedule_events(<<TestEvent>>, SimDuration, interval, choices)
         ELSE <<TestEvent>>
    /\ planned_events' = scheduled_events'
    /\ dssObj' = NewDSS
    /\ ret' = [op |-> "init", val |-> None]
    /\ UNCHANGED <<instances, order, time, prev_step, next_step, next_steps,
                   active_events, raised, trace>>

\* PFlowSim.init(loadgen_interval, enable_events, event_interval), called once
\* by the orchestrator before anything else
init(lg, enable, interval, choices) ==
    /\ ~initialized
    /\ raised = ""
    /\ initialized' = TRUE
    /\ loadgen_interval' = lg
    /\ event_interval' = interval
    /\ enable_events' = enable
    /\ scheduled_events' =
         IF enable # 0
         THEN schedule_events(<<TestEvent>>, SimDuration, interval, choices)
         ELSE scheduled_events
    /\ planned_events' = scheduled_events'
    /\ dssObj' = NewDSS
    /\ ret' = [op |-> "init", val |-> None]
    /\ UNCHANGED <<instances, order, time, prev_step, next_step, next_steps,
                   active_events, raised, trace>>

\* self.instances[eid] = {}: what create leaves under eid when the model is
\* none of the five it tests for
EmptyDict == [cls |-> "dict"]

\* PFlowSim.create(model, eid, step_size, error), called before the first step
create(model, eid, step_size, error) ==
    /\ initialized
    /\ raised = ""
    /\ time = -1
    /\ instances' = [e \in DOMAIN instances \cup {eid} |->
                        IF e = eid
                        THEN IF model \in Models
                             THEN NewDevice(model, eid, step_size, error)
                             ELSE EmptyDict
                        ELSE instances[e]]
    /\ order' = IF eid \in DOMAIN instances THEN order ELSE Append(order, eid)
    /\ ret' = [op |-> "create", val |-> Some(eid), model |-> model]
    /\ UNCHANGED <<initialized, loadgen_interval, event_interval, enable_events,
                   time, prev_step, next_step, next_steps, scheduled_events,
                   active_events, dssObj, raised, trace, planned_events>>

(***************************************************************************)
(* Disturbance effects: each takes and returns [active, dss]               *)
(***************************************************************************)
\* apply_fault recording the line alone, without the prefix of its kind
apply_fault_Unprefixed(line_id, st) ==
    IF line_id = "6054-6110"
    THEN [active |-> st.active \cup {"6054-6110"},
          dss |-> [st.dss EXCEPT !.line = "fault"]]
    ELSE st

\* PFlowSim.apply_fault
apply_fault(line_id, st) ==
    IF line_id = "6054-6110"
    THEN [active |-> st.active \cup {"Fault_6054-6110"},
          dss |-> [st.dss EXCEPT !.line = "fault"]]
    ELSE st

\* PFlowSim.remove_fault
remove_fault(line_id, st) ==
    IF line_id = "6054-6110"
    THEN [active |-> st.active \ {"Fault_6054-6110"},
          dss |-> [st.dss EXCEPT !.line = "original"]]
    ELSE st

\* change_load keeping one label for each start that is in effect
change_load_Counted(load_id, st) ==
    IF load_id = "6110.1"
    THEN [active |-> IF "LoadChange_6110.1" \in st.active
                     THEN st.active \cup {"LoadChange_6110.1#2"}
                     ELSE st.active \cup {"LoadChange_6110.1"},
          dss |-> [st.dss EXCEPT !.load = "surge"]]
    ELSE st

\* PFlowSim.change_load
change_load(load_id, st) ==
    IF load_id = "6110.1"
    THEN [active |-> st.active \cup {"LoadChange_6110.1"},
          dss |-> [st.dss EXCEPT !.load = "surge"]]
    ELSE st

\* restore_load that leaves the label in active_events
restore_load_KeepLabel(load_id, st) ==
    IF load_id = "6110.1"
    THEN [active |-> st.active,
          dss |-> [st.dss EXCEPT !.load = "original"]]
    ELSE st

\* PFlowSim.restore_load
restore_load(load_id, st) ==
    IF load_id = "6110.1"
    THEN [active |-> st.active \ {"LoadChange_6110.1"},
          dss |-> [st.dss EXCEPT !.load = "original"]]
    ELSE st

\* evt_func(*evt_args)
CallEffect(e, st) ==
    CASE e.func = "apply_fault" -> apply_fault(e.args, st)
      [] e.func = "remove_fault" -> remove_fault(e.args, st)
      [] e.func = "change_load" -> change_load(e.args, st)
      [] e.func = "restore_load" -> restore_load(e.args, st)

\* event.startswith(prefix) for the labels the effects insert
StartsWith(label, prefix) ==
    CASE label = "Fault_6054-6110" -> prefix = "Fault_"
      [] label = "LoadChange_6110.1" -> prefix = "LoadChange_"
      [] OTHER -> FALSE

\* PFlowSim.get_event_state
get_event_state(active) ==
    [Normal |-> Cardinality(active) = 0,
     Fault |-> \E event \in active : StartsWith(event, "Fault_"),
     GeneratorTrip |-> \E event \in active : StartsWith(event, "GeneratorTrip_"),
     LoadChange |-> \E event \in active : StartsWith(event, "LoadChange_")]


(***************************************************************************)
(* PFlowSim.step                                                           *)
(***************************************************************************)
\* loadGen_cnt without the duplicate test: every call generates a load
loadGen_cnt_EveryCall(t, prev, interval) ==
    IF prev < 0 THEN 1
    ELSE IF (t \div interval) - (prev \div interval) > 1
         THEN (t \div interval) - (prev \div interval)
         ELSE 1

\* one load update for every step of a new time
loadGen_cnt_Single(t, prev, interval) ==
    IF t # prev THEN 1 ELSE 0

\* loadGen_cnt without the first-call case
loadGen_cnt_NoFirst(t, prev, interval) ==
    IF t # prev
    THEN (t \div interval) - (prev \div interval)
    ELSE 0

\* loadGen_cnt: the number of setLoads calls of a step (none when the time
\* is the previous step's time)
loadGen_cnt(t, prev, interval) ==
    IF t # prev
    THEN IF prev < 0 THEN 1 ELSE (t \div interval) - (prev \div interval)
    ELSE 0

\* the event loop firing only the events strictly before the step's time
RECURSIVE TriggerEvents_Strict(_, _, _, _, _)
TriggerEvents_Strict(events, i, t, st, fired) ==
    IF i > Len(events) THEN [st |-> st, fired |-> fired]
    ELSE IF t > events[i].time
         THEN TriggerEvents_Strict(events, i + 1, t, CallEffect(events[i], st),
                                   Append(fired, events[i]))
         ELSE TriggerEvents_Strict(events, i + 1, t, st, fired)

\* the event loop walking the schedule from its end
RECURSIVE TriggerEvents_Reversed(_, _, _, _, _)
TriggerEvents_Reversed(events, i, t, st, fired) ==
    IF i > Len(events) THEN [st |-> st, fired |-> fired]
    ELSE LET r == TriggerEvents_Reversed(events, i + 1, t, st, fired)
         IN IF t >= events[i].time
            THEN [st |-> CallEffect(events[i], r.st),
                  fired |-> Append(r.fired, events[i])]
            ELSE r

\* the event loop leaving after the first event it fires
RECURSIVE TriggerEvents_FirstOnly(_, _, _, _, _)
TriggerEvents_FirstOnly(events, i, t, st, fired) ==
    IF i > Len(events) THEN [st |-> st, fired |-> fired]
    ELSE IF t >= events[i].time
         THEN [st |-> CallEffect(events[i], st), fired |-> Append(fired, events[i])]
         ELSE TriggerEvents_FirstOnly(events, i + 1, t, st, fired)

\* the loop over self.scheduled_events: [st, fired], st being [active, dss]
RECURSIVE TriggerEvents(_, _, _, _, _)
TriggerEvents(events, i, t, st, fired) ==
    IF i > Len(events) THEN [st |-> st, fired |-> fired]
    ELSE IF t >= events[i].time
         THEN TriggerEvents(events, i + 1, t, CallEffect(events[i], st),
                            Append(fired, events[i]))
         ELSE TriggerEvents(events, i + 1, t, st, fired)

\* list.remove(e): drops the first entry equal to e
RemoveFirst(events, e) ==
    IF \E i \in 1..Len(events) : events[i] = e
    THEN LET k == CHOOSE i \in 1..Len(events) :
                     events[i] = e /\ \A j \in 1..(i - 1) : events[j] # e
         IN SubSeq(events, 1, k - 1) \o SubSeq(events, k + 1, Len(events))
    ELSE events

\* the schedule left as it is after the event loop
RemoveAll_Skipped(events, gone, i) == events

\* for e in events_to_remove: self.scheduled_events.remove(e)
RECURSIVE RemoveAll(_, _, _)
RemoveAll(events, gone, i) ==
    IF i > Len(gone) THEN events
    ELSE RemoveAll(RemoveFirst(events, gone[i]), gone, i + 1)

\* values an actuator input list can hold: None, the string 'None', integers
InNone == [k |-> "None", n |-> 0]
InStr == [k |-> "str", n |-> 0]
InInt(n) == [k |-> "int", n |-> n]
InputValues == {InNone, InStr, InInt(0), InInt(1)}

\* value_v != 'None' and value_v != None
Present(v) == v # InStr /\ v # InNone

\* the inner loop over one actuator's vlist: [dev, dss, controls]
RECURSIVE ControlLoop(_, _, _, _, _, _, _)
ControlLoop(eid, vlist, i, t, dev, dss, controls) ==
    IF i > Len(vlist) THEN [dev |-> dev, dss |-> dss, controls |-> controls]
    ELSE IF Present(vlist[i])
         THEN LET r == setControl(dev, Some(vlist[i].n), t, dss)
              IN ControlLoop(eid, vlist, i + 1, t, r.dev, r.dss,
                             Append(controls, [eid |-> eid, value |-> Some(vlist[i].n),
                                               tapped |-> r.tapped]))
         ELSE ControlLoop(eid, vlist, i + 1, t, dev, dss, controls)

\* the loop over inputs.items(): [inst, dss, controls]
RECURSIVE ActuationLoop(_, _, _, _, _, _)
ActuationLoop(inputs, k, t, inst, dss, controls) ==
    IF k > Len(inputs) THEN [inst |-> inst, dss |-> dss, controls |-> controls]
    ELSE LET eid == inputs[k].eid
             r == ControlLoop(eid, inputs[k].v, 1, t, inst[eid], dss, controls)
         IN ActuationLoop(inputs, k + 1, t, [inst EXCEPT ![eid] = r.dev],
                          r.dss, r.controls)

\* a put at the head of the queue, whatever the value
Put_Front(q, x) == <<x>> \o q

\* PriorityQueue.put(x): the queue is kept in ascending order
Put(q, x) ==
    LET k == Cardinality({i \in 1..Len(q) : q[i] <= x})
    IN SubSeq(q, 1, k) \o <<x>> \o SubSeq(q, k + 1, Len(q))

RECURSIVE PutAll(_, _, _)
PutAll(q, rets, eids) ==
    IF eids = {} THEN q
    ELSE LET e == CHOOSE x \in eids : TRUE
         IN PutAll(IF rets[e] # Some(-1) THEN Put(q, rets[e][1]) ELSE q,
                   rets, eids \ {e})

\* the drain with > for >=
RECURSIVE Drain_Strict(_, _)
Drain_Strict(q, t) ==
    IF q # <<>> /\ t > q[1] THEN Drain_Strict(Tail(q), t) ELSE q

\* the drain with if for while: at most one entry is taken
Drain_Once(q, t) ==
    IF q # <<>> /\ t >= q[1] THEN Tail(q) ELSE q

\* while (self.time >= self.next_steps.queue[0]): self.next_steps.get()
\* as far as the queue lasts
RECURSIVE Drain(_, _)
Drain(q, t) ==
    IF q # <<>> /\ t >= q[1] THEN Drain(Tail(q), t) ELSE q

\* the second sampling loop left out
IsProber_Skipped(eid) == FALSE

\* the entities step samples in its first loop, and in its second
IsScheduled(eid) == Find(eid, "Sensor") \/ Find(eid, "Phasor") \/ Find(eid, "SmartMeter")
IsProber(eid) == Find(eid, "Prober")

\* the inputs a step can get: a value list (with origination times) for some
\* of the actuators
ActuatorIds == {e \in DOMAIN instances : instances[e].cls = "Actuator"}
ValueLists(values) ==
    UNION {[1..n -> values] : n \in 0..MaxInputs}
StepInputs(values) ==
    {<<>>} \cup {<<[eid |-> e, v |-> vl]>> : e \in ActuatorIds, vl \in ValueLists(values)}

\* the effects that reach the power-flow engine: those on the one line and
\* the one load the effects test for
KnownTarget(e) ==
    \/ e.func \in {"apply_fault", "remove_fault"} /\ e.args = "6054-6110"
    \/ e.func \in {"change_load", "restore_load"} /\ e.args = "6110.1"

\* what the environment makes fail in one step: event is the index in
\* scheduled_events of the effect whose engine call raises (0: none), partial
\* tells whether an earlier engine call of that effect went through, read
\* holds the devices whose engine read raises
NoFail == [event |-> 0, partial |-> FALSE, read |-> {}]

\* an effect that raises: the label is added or discarded after the engine
\* calls, so active_events keeps its value
FailEffect(e, st, partial) ==
    [active |-> st.active,
     dss |-> IF ~partial THEN st.dss
             ELSE IF e.func \in {"apply_fault", "remove_fault"}
                  THEN [st.dss EXCEPT !.line = "partial"]
                  ELSE [st.dss EXCEPT !.load = "partial"]]

\* the failures a step at t can meet: a due effect that reaches the engine,
\* reads of devices that sample at t
CanFail(t, fail) ==
    /\ fail.event # 0 =>
          /\ fail.event \in DOMAIN scheduled_events
          /\ t >= scheduled_events[fail.event].time
          /\ KnownTarget(scheduled_events[fail.event])
    /\ fail.event = 0 => ~fail.partial
    /\ \A e \in fail.read :
          /\ e \in DOMAIN instances
          /\ IsScheduled(e) \/ IsProber(e)
          /\ instances[e].cls # "dict"
          /\ t % instances[e].step_size = 0

\* the event loop with each effect in a try block: a failure is dropped, the
\* event counts as fired and the loop goes on
EventLoop_Caught(events, t, st0, fail) ==
    IF fail.event = 0
    THEN LET r == TriggerEvents(events, 1, t, st0, <<>>)
         IN [st |-> r.st, fired |-> r.fired, exc |-> ""]
    ELSE LET before == TriggerEvents(SubSeq(events, 1, fail.event - 1), 1, t, st0, <<>>)
             failed == FailEffect(events[fail.event], before.st, fail.partial)
             after  == TriggerEvents(SubSeq(events, fail.event + 1, Len(events)), 1, t,
                                     failed, Append(before.fired, events[fail.event]))
         IN [st |-> after.st, fired |-> after.fired, exc |-> ""]

\* the event loop of step: [st, fired, exc].  An effect that raises ends the
\* loop, and the step, with the events before it fired
EventLoop(events, t, st0, fail) ==
    IF fail.event = 0
    THEN LET r == TriggerEvents(events, 1, t, st0, <<>>)
         IN [st |-> r.st, fired |-> r.fired, exc |-> ""]
    ELSE LET before == TriggerEvents(SubSeq(events, 1, fail.event - 1), 1, t, st0, <<>>)
         IN [st |-> FailEffect(events[fail.event], before.st, fail.partial),
             fired |-> before.fired, exc |-> "OracleError"]

\* the sampling loops placed ahead of the event loop
SampledState_BeforeEvents(loaded, acted) == loaded

\* the sampling loops placed between the event loop and the actuation loop:
\* the state the events left, without the taps of this step
SampledState_BeforeActuation(loaded, acted) == [acted EXCEPT !.tap = loaded.tap]

\* the engine state the sampling loops read: they come after the event loop
\* and the actuation loop, so not the state the load generation left (loaded)
\* but the one events and actuation left (acted)
SampledState(loaded, acted) == acted

\* what a step computes before it queries the queue, phase by phase: load
\* generation, events, actuation, the two sampling loops with their puts.
\* exc is the exception that ends it early ("" if none): the loops run in
\* the order of self.instances, and what was done before the exception stays
StepPhases(t, inputs, noise, fail) ==
    LET cnt     == loadGen_cnt(t, time, loadgen_interval)
        st0     == [active |-> active_events, dss |-> setLoads(dssObj, cnt)]
        ev      == EventLoop(scheduled_events, t, st0, fail)
        act     == IF ev.exc = ""
                   THEN ActuationLoop(inputs, 1, t, instances, ev.st.dss, <<>>)
                   ELSE [inst |-> instances, dss |-> ev.st.dss, controls |-> <<>>]
        seq     == SelectSeq(order, IsScheduled) \o SelectSeq(order, IsProber)
        Fails(e) == instances[e].cls = "dict" \/ e \in fail.read
        bad     == {k \in 1..Len(seq) : Fails(seq[k])}
        n       == IF ev.exc # "" THEN 0
                   ELSE IF bad = {} THEN Len(seq)
                   ELSE (CHOOSE k \in bad : \A j \in bad : k <= j) - 1
        done    == {seq[k] : k \in 1..n}
        sampled == {e \in done : IsScheduled(e)}
        upd     == [e \in done |-> updateValues(act.inst[e], t,
                                                SampledState(st0.dss, act.dss), noise[e])]
        rets    == [e \in sampled |-> upd[e].ret]
        lastS   == {k \in 1..n : IsScheduled(seq[k])}
    IN [cnt |-> cnt, fired |-> ev.fired, active |-> ev.st.active,
        dss |-> act.dss, controls |-> act.controls, sampled |-> sampled,
        inst |-> [e \in DOMAIN instances |->
                     IF e \in done THEN upd[e].dev ELSE act.inst[e]],
        queue |-> PutAll(next_steps, rets, sampled),
        exc |-> IF ev.exc # "" THEN ev.exc
                ELSE IF n = Len(seq) THEN ""
                ELSE IF instances[seq[n + 1]].cls = "dict" THEN "AttributeError"
                ELSE "OracleError",
        removed |-> ev.exc = "",
        last |-> IF lastS = {} THEN next_step
                 ELSE rets[seq[CHOOSE k \in lastS : \A j \in lastS : k >= j]][1]]

\* PFlowSim.step(time, inputs, max_advance)
step(t, inputs, noise, fail) ==
    /\ initialized
    /\ raised = ""
    /\ t >= time
    /\ t = time => trace.dup < MaxDup
    /\ CanFail(t, fail)
    /\ \E ph \in {StepPhases(t, inputs, noise, fail)} : \E q \in {Drain(ph.queue, t)} :
          /\ prev_step' = time
          /\ time' = t
          /\ scheduled_events' = IF ph.removed
                                 THEN RemoveAll(scheduled_events, ph.fired, 1)
                                 ELSE scheduled_events
          /\ active_events' = ph.active
          /\ dssObj' = ph.dss
          /\ instances' = ph.inst
          /\ trace' = [inputs |-> inputs, loadGen_cnt |-> ph.cnt,
                       fired |-> ph.fired, controls |-> ph.controls,
                       dup |-> IF t = time THEN trace.dup + 1 ELSE 1,
                       fail |-> fail]
          /\ IF ph.exc # ""
             THEN \* an effect, a read or a method lookup raised
                  /\ raised' = ph.exc
                  /\ next_steps' = ph.queue
                  /\ next_step' = ph.last
                  /\ ret' = [op |-> "step", val |-> None]
             ELSE IF ph.queue = <<>>
             THEN \* self.next_steps.queue[0] of an empty queue
                  /\ raised' = "IndexError"
                  /\ next_steps' = q
                  /\ next_step' = IF ph.sampled = {} THEN next_step ELSE -1
                  /\ ret' = [op |-> "step", val |-> None]
             ELSE IF q = <<>>
             THEN \* the while loop emptied the queue
                  /\ raised' = "IndexError"
                  /\ next_steps' = q
                  /\ next_step' = ph.queue[Len(ph.queue)]
                  /\ ret' = [op |-> "step", val |-> None]
             ELSE /\ raised' = raised
                  /\ next_steps' = q
                  /\ next_step' = q[1]
                  /\ ret' = [op |-> "step", val |-> Some(q[1])]
    /\ UNCHANGED <<initialized, order, loadgen_interval, event_interval,
                   enable_events, planned_events>>

(***************************************************************************)
(* PFlowSim.get_data                                                       *)
(***************************************************************************)
\* an entry for every entity that was read
HasEntry_Always(eid, got) == TRUE

\* the entities that get an entry, given what getLastValue returned
HasEntry(eid, got) ==
    IF Find(eid, "Actuator") THEN got[eid].time # None
    ELSE time % instances[eid].step_size = 0

\* PFlowSim.get_data(outputs): the loop runs in the order of self.instances
\* and stops at the first entry that is no device object
get_data ==
    /\ initialized
    /\ raised = ""
    /\ LET event_state == get_event_state(active_events)
           bad  == {k \in 1..Len(order) : instances[order[k]].cls = "dict"}
           n    == IF bad = {} THEN Len(order)
                   ELSE (CHOOSE k \in bad : \A j \in bad : k <= j) - 1
           read == {e \in {order[k] : k \in 1..n} :
                       Find(e, "Actuator") \/ time % instances[e].step_size = 0}
           got  == [e \in read |-> getLastValue(instances[e])]
           data == [e \in {x \in read : HasEntry(x, got)} |->
                       [v |-> <<got[e].value>>, t |-> <<got[e].time>>,
                        event_state |-> <<event_state>>]]
       IN /\ instances' = [e \in DOMAIN instances |->
                              IF e \in read THEN got[e].dev ELSE instances[e]]
          /\ IF bad = {}
             THEN /\ ret' = [op |-> "get_data", val |-> data]
                  /\ raised' = raised
             ELSE /\ ret' = [op |-> "get_data", val |-> <<>>]
                  /\ raised' = "AttributeError"
    /\ UNCHANGED <<initialized, order, loadgen_interval, event_interval, enable_events,
                   time, prev_step, next_step, next_steps, scheduled_events,
                   active_events, dssObj, trace, planned_events>>

(***************************************************************************)
(* The engine as the orchestrator drives it: init once, create the         *)
(* entities, then step and get_data.  Each call takes its inputs from the  *)
(* sets it is given.                                                       *)
(***************************************************************************)
InitCall(loadgens, enables, intervals) ==
    \E lg \in loadgens, enable \in enables, interval \in intervals :
        \E choices \in [1..(IF enable # 0 THEN NumStarts(SimDuration, interval) ELSE 0)
                          -> 1..Len(possible_events)] :
            init(lg, enable, interval, choices)

\* the place of an entity in the order the demo creates its entities in
EidRank(eid) ==
    CASE eid = "Sensor_1" -> 1
      [] eid = "Phasor_1" -> 2
      [] eid = "SmartMeter_1" -> 3
      [] eid = "Actuator_1" -> 4
      [] eid = "Prober_1.0.1" -> 5

\* the creations of the demo: each entity once, under its own model, in the
\* demo's order
CreateCall(eids, sizes) ==
    \E eid \in eids, step_size \in sizes :
        /\ \A e \in DOMAIN instances : EidRank(e) < EidRank(eid)
        /\ create(ModelOf(eid), eid, step_size, 0)

StepCall(times, values) ==
    \E t \in times : \E inputs \in StepInputs(values) :
        \E noise \in [DOMAIN instances -> {0}] :
            step(t, inputs, noise, NoFail)

GetDataCall == get_data

\* actuation, load generation and the one-disturbance schedules: one sensor
\* and one actuator
Next ==
    \/ InitCall(LoadgenIntervals, {0, 1}, {10000})
    \/ CreateCall({"Sensor_1", "Actuator_1"}, {200})
    \/ StepCall(ShortTimes, InputValues)
    \/ GetDataCall

Spec == Init /\ [][Next]_vars

\* sampling and wake times: the measurement devices with both periods,
\* no disturbance, no actuator
NextSampling ==
    \/ InitCall({80}, {0}, {10000})
    \/ CreateCall(EIDS \ {"Actuator_1"}, StepSizes)
    \/ StepCall(Times, InputValues)
    \/ GetDataCall

SpecSampling == Init /\ [][NextSampling]_vars

\* disturbances: the schedules of init with events enabled, one sensor
NextEvents ==
    \/ InitCall({1000}, {1}, EventIntervals)
    \/ CreateCall({"Sensor_1"}, {100})
    \/ StepCall(Times, InputValues)
    \/ GetDataCall

SpecEvents == Init /\ [][NextEvents]_vars

\* a step the orchestrator makes no later than the wake time the simulator
\* last returned (0 before the first step), once the entities exist
StepWithinWakeCall(times) ==
    \E t \in times :
        /\ order # <<>>
        /\ t <= next_step
        /\ step(t, <<>>, [e \in DOMAIN instances |-> 0], NoFail)

\* one sensor woken on time: no disturbance, no actuator, every step at or
\* before the returned wake time
NextSensor ==
    \/ InitCall({80}, {0}, {10000})
    \/ CreateCall({"Sensor_1"}, StepSizes \cup {100})
    \/ StepWithinWakeCall(Times)
    \/ GetDataCall

SpecSensor == Init /\ [][NextSensor]_vars

\* the outputs of all five kinds of device: both periods, one control value
NextOutputs ==
    \/ InitCall({80}, {0}, {10000})
    \/ CreateCall(EIDS, StepSizes)
    \/ StepCall(ShortTimes, {InInt(1)})
    \/ GetDataCall

SpecOutputs == Init /\ [][NextOutputs]_vars

\* a step in which engine calls may raise
StepFailingCall(times, values) ==
    \E t \in times : \E inputs \in StepInputs(values) :
        \E event \in 0..Len(scheduled_events), partial \in BOOLEAN,
           read \in SUBSET DOMAIN instances :
            step(t, inputs, [e \in DOMAIN instances |-> 0],
                 [event |-> event, partial |-> partial, read |-> read])

\* engine failures: the schedule of init with events enabled, a sensor, a
\* phasor and an actuator, one control value
NextFailures ==
    \/ InitCall({1000}, {1}, {300})
    \/ CreateCall({"Sensor_1", "Phasor_1", "Actuator_1"}, {100})
    \/ StepFailingCall(ShortTimes, {InInt(1)})
    \/ GetDataCall

SpecFailures == Init /\ [][NextFailures]_vars

\* create as any caller can call it: an entity id again, a model that is
\* none of the five
CreateAnyCall(eids, sizes) ==
    \E eid \in eids, step_size \in sizes :
        \E model \in {ModelOf(eid), "Relay"} :
            create(model, eid, step_size, 0)

\* creation: a sensor and an actuator created in any way, one control value
NextCreate ==
    \/ InitCall({80}, {0}, {10000})
    \/ CreateAnyCall({"Sensor_1", "Actuator_1"}, StepSizes)
    \/ StepCall(ShortTimes, {InInt(1)})
    \/ GetDataCall

SpecCreate == Init /\ [][NextCreate]_vars

\* disturbances that overlap: a start every 100, so that a load change (and
\* its end) comes while an earlier one is in effect
NextOverlap ==
    \/ InitCall({1000}, {1}, {100})
    \/ CreateCall({"Sensor_1"}, {100})
    \/ StepCall(Times, {InNone})
    \/ GetDataCall

SpecOverlap == Init /\ [][NextOverlap]_vars

\* the errors the device file gives the noisy devices
Errors == {0, 1}

\* a creation with the error of the device file
CreateNoisyCall(eids, sizes, errors) ==
    \E eid \in eids, step_size \in sizes, error \in errors :
        /\ \A e \in DOMAIN instances : EidRank(e) < EidRank(eid)
        /\ create(ModelOf(eid), eid, step_size, error)

\* a step in which every device that adds noise draws it from the
\* distribution of its own error
StepNoisyCall(times) ==
    \E t \in times :
        \E noise \in [DOMAIN instances -> {-1, 0, 1}] :
            /\ \A e \in DOMAIN instances :
                  noise[e] \in IF instances[e].cls \in {"Phasor", "Smartmeter"}
                               THEN NoiseDraws(instances[e].error)
                               ELSE {0}
            /\ step(t, <<>>, noise, NoFail)

\* measurement noise: a phasor and a smart meter with and without error,
\* load generation changing the circuit from step to step
NextNoise ==
    \/ InitCall({80}, {0}, {10000})
    \/ CreateNoisyCall({"Phasor_1", "SmartMeter_1"}, StepSizes, Errors)
    \/ StepNoisyCall(ShortTimes)
    \/ GetDataCall

SpecNoise == Init /\ [][NextNoise]_vars

\* the phases of a step: load generation at every step, disturbances, a
\* sensor, an actuator given a control value and a prober with two periods,
\* engine calls that may raise
NextPhases ==
    \/ InitCall({80}, {1}, {300})
    \/ CreateCall({"Sensor_1", "Actuator_1", "Prober_1.0.1"}, {100, 200})
    \/ StepFailingCall(ShortTimes, {InInt(1)})
    \/ GetDataCall

SpecPhases == Init /\ [][NextPhases]_vars

\* the inputs of a step with the origination time of every value: attrs['v']
\* and attrs['t'] are lists of one length, the values of one list sent at
\* one time
StampedInputs(values, stamps) ==
    {<<>>} \cup
    {<<[eid |-> e, v |-> vl, t |-> [i \in DOMAIN vl |-> st]]>> :
        e \in ActuatorIds, vl \in ValueLists(values), st \in stamps}

\* a step given control values that originated at any time
StepStampedCall(times, values, stamps) ==
    \E t \in times : \E inputs \in StampedInputs(values, stamps) :
        step(t, inputs, [e \in DOMAIN instances |-> 0], NoFail)

\* control values on their way to the engine: a sensor to keep the queue
\* filled, an actuator, values 0, 1 and 2 with origination times
NextStamped ==
    \/ InitCall({1000}, {0}, {10000})
    \/ CreateCall({"Sensor_1", "Actuator_1"}, {100})
    \/ StepStampedCall(ShortTimes, {InInt(0), InInt(1), InInt(2)}, {0, TimeUnit})
    \/ GetDataCall

SpecStamped == Init /\ [][NextStamped]_vars

\* the measurement devices woken on time: a sensor, a phasor and a smart
\* meter of three periods, every step at or before the returned wake time
NextWake ==
    \/ InitCall({80}, {0}, {10000})
    \/ CreateCall({"Sensor_1", "Phasor_1", "SmartMeter_1"}, StepSizes \cup {100})
    \/ StepWithinWakeCall(Times)
    \/ GetDataCall

SpecWake == Init /\ [][NextWake]_vars

\* a step with control values and with the noise the devices draw
StepAnyCall(times, values) ==
    \E t \in times : \E inputs \in StepInputs(values) :
        \E noise \in [DOMAIN instances -> {-1, 0, 1}] :
            /\ \A e \in DOMAIN instances :
                  noise[e] \in IF instances[e].cls \in {"Phasor", "Smartmeter"}
                               THEN NoiseDraws(instances[e].error)
                               ELSE {0}
            /\ step(t, inputs, noise, NoFail)

\* everything a step takes in besides its time: disturbances off or on with
\* any schedule, a noisy phasor and an actuator given control values
NextInfluence ==
    \/ InitCall({1000}, {0, 1}, {300})
    \/ CreateNoisyCall({"Phasor_1", "Actuator_1"}, StepSizes, {1})
    \/ StepAnyCall(ShortTimes, {InInt(1)})
    \/ GetDataCall

SpecInfluence == Init /\ [][NextInfluence]_vars


(***************************************************************************)
(* One device on its own: the operations of the device classes, called     *)
(* directly on a single object.  ret records the call: the operation, its  *)
(* arguments, what it returned and the call that came before it.           *)
(***************************************************************************)
UnitPeriods == 1..MaxPeriod
UnitTimes == 0..MaxSampleTime
ControlValues == {None, Some(0), Some(1), Some(2)}

Call(op, eid, t, arg, val) ==
    [op |-> op, eid |-> eid, t |-> t, arg |-> arg, val |-> val,
     after |-> [op |-> ret.op, t |-> ret.t, arg |-> ret.arg]]

InitUnit ==
    /\ initialized = TRUE
    /\ \E eid \in EIDS, step_size \in UnitPeriods :
          /\ instances = [e \in {eid} |-> NewDevice(ModelOf(eid), eid, step_size, 0)]
          /\ order = <<eid>>
    /\ loadgen_interval = 1
    /\ event_interval = 10000
    /\ enable_events = 0
    /\ time = -1
    /\ prev_step = -1
    /\ next_step = 0
    /\ next_steps = <<>>
    /\ scheduled_events = <<>>
    /\ active_events = {}
    /\ dssObj = NewDSS
    /\ ret = [op |-> "__init__", eid |-> "", t |-> -1, arg |-> None, val |-> None,
              after |-> [op |-> "", t |-> -1, arg |-> None]]
    /\ raised = ""
    /\ trace = NoTrace
    /\ planned_events = <<>>

UnitFrame ==
    UNCHANGED <<initialized, order, loadgen_interval, event_interval, enable_events,
                time, prev_step, next_step, next_steps, scheduled_events,
                active_events, raised, planned_events>>

\* instances[eid].updateValues(t)
UpdateValuesCall(eid, t) ==
    /\ eid \in DOMAIN instances
    /\ instances[eid].cls # "Actuator"
    /\ \E r \in {updateValues(instances[eid], t, dssObj, 0)} :
          /\ instances' = [instances EXCEPT ![eid] = r.dev]
          /\ ret' = Call("updateValues", eid, t, None, r.ret)
    /\ UNCHANGED <<dssObj, trace>>
    /\ UnitFrame

\* instances[eid].getLastValue()
GetLastValueCall(eid) ==
    /\ eid \in DOMAIN instances
    /\ \E r \in {getLastValue(instances[eid])} :
          /\ instances' = [instances EXCEPT ![eid] = r.dev]
          /\ ret' = Call("getLastValue", eid, -1, None, <<r.value, r.time>>)
    /\ UNCHANGED <<dssObj, trace>>
    /\ UnitFrame

\* instances[eid].setControl(value, t)
SetControlCall(eid, value, t) ==
    /\ eid \in DOMAIN instances
    /\ instances[eid].cls = "Actuator"
    /\ \E r \in {setControl(instances[eid], value, t, dssObj)} :
          /\ instances' = [instances EXCEPT ![eid] = r.dev]
          /\ dssObj' = r.dss
          /\ ret' = Call("setControl", eid, t, value, None)
          /\ trace' = [trace EXCEPT !.controls =
                          <<[eid |-> eid, value |-> value, tapped |-> r.tapped]>>]
    /\ UnitFrame

NextUnit ==
    \/ \E eid \in EIDS, t \in UnitTimes : UpdateValuesCall(eid, t)
    \/ \E eid \in EIDS : GetLastValueCall(eid)
    \/ \E eid \in EIDS, value \in ControlValues, t \in UnitTimes :
          SetControlCall(eid, value, t)

SpecUnit == InitUnit /\ [][NextUnit]_vars


(***************************************************************************)
(* Properties                                                              *)
(***************************************************************************)
StepReturned == ret.op = "step" /\ raised = "" /\ ret.val # None

\* C1: a step that returns, returns a next wake time strictly greater than
\* the time it was called with.
C1_WakeTimeAfterStepTime ==
    StepReturned => ret.val[1] > time

\* a step at 200 that drained the wake time 200 and returned 300
C1_Witness ==
    /\ StepReturned
    /\ prev_step = 0
    /\ time = 200
    /\ ret.val = Some(300)

\* C2: with at least one Sensor, Phasor or SmartMeter, every step leaves an
\* entry greater than its time in the pending-wake set and does not fail.
C2_StepAlwaysHasNextWake ==
    (ret.op = "step" /\ \E e \in DOMAIN instances : IsScheduled(e))
        => /\ raised = ""
           /\ next_steps # <<>>
           /\ next_steps[1] > time

RECURSIVE ExpectedControls(_, _)
ExpectedControls(inputs, k) ==
    IF k > Len(inputs) THEN <<>>
    ELSE LET ints == SelectSeq(inputs[k].v, LAMBDA v : v.k = "int")
         IN [i \in 1..Len(ints) |->
                [eid |-> inputs[k].eid, value |-> Some(ints[i].n),
                 tapped |-> ints[i].n # 0]]
            \o ExpectedControls(inputs, k + 1)

\* C4: a step called with the time of the step before it applies no load
\* update, applies every non-null actuator input it is given, and leaves no
\* due event in the schedule.
C4_DuplicateStep ==
    (ret.op = "step" /\ time = prev_step) =>
        /\ trace.loadGen_cnt = 0
        /\ trace.controls = ExpectedControls(trace.inputs, 1)
        /\ \A i \in DOMAIN scheduled_events : scheduled_events[i].time > time

\* a second step at 100, with events enabled, given a null and a non-null value
C4_Witness ==
    /\ StepReturned
    /\ time = prev_step
    /\ time = 100
    /\ trace.dup = 2
    /\ enable_events = 1
    /\ trace.inputs # <<>>
    /\ Len(trace.inputs[1].v) = 2
    /\ Len(trace.controls) = 1
    /\ trace.controls[1].tapped

\* C5: a step whose time differs from the previous step's applies
\* floor(time/loadInterval) - floor(previousTime/loadInterval) load updates
\* to the oracle, and the first step ever applies exactly 1.
C5_LoadUpdatesPerStep ==
    [][time' # time =>
          /\ dssObj'.loads - dssObj.loads =
                IF time < 0 THEN 1
                ELSE (time' \div loadgen_interval) - (time \div loadgen_interval)
          /\ trace'.loadGen_cnt = dssObj'.loads - dssObj.loads]_vars

\* a step from 0 to 200 with interval 80: floor(200/80) - floor(0/80) = 2,
\* after the one update of the first step
C5_Witness ==
    /\ StepReturned
    /\ loadgen_interval = 80
    /\ prev_step = 0
    /\ time = 200
    /\ trace.loadGen_cnt = 2
    /\ dssObj.loads = 3

\* C6: getLastValue of an actuator returns the stored pair, and (None, None)
\* when the call before it was a getLastValue too.
C6_DestructiveRead ==
    [][(ret'.op = "getLastValue" /\ instances[ret'.eid].cls = "Actuator") =>
          /\ ret'.val = <<instances[ret'.eid].priorValue, instances[ret'.eid].priorTime>>
          /\ ret.op = "getLastValue" => ret'.val = <<None, None>>]_vars

\* the second of two reads in a row, after a control value 2 reached the tap
C6_Witness ==
    /\ ret.op = "getLastValue"
    /\ ret.after.op = "getLastValue"
    /\ ret.eid = "Actuator_1"
    /\ ret.val = <<None, None>>
    /\ dssObj.tap = 2

\* C7 as stated, its first half: no applied value is dropped, so every value a
\* step applied is still held for the reader when the step ends.
C7_EveryAppliedValueHeld ==
    ret.op = "step" =>
        \A i \in DOMAIN trace.controls :
            /\ instances[trace.controls[i].eid].priorValue = trace.controls[i].value
            /\ instances[trace.controls[i].eid].priorTime = Some([t |-> time, eps |-> 0])

\* the setControl calls of the last step on one actuator
ControlsOf(eid, tr) == SelectSeq(tr.controls, LAMBDA c : c.eid = eid)

\* C7 amended: every control value is exposed at most once.  An actuator holds
\* the last value applied to it, values applied before it since the last
\* getOutputs are overwritten and never exposed; getOutputs exposes the held
\* pair and clears it, so no later getOutputs shows it again.
C7_LastValueExposedOnce ==
    [][/\ ret'.op = "step" =>
             \A e \in DOMAIN instances :
                 (instances[e].cls = "Actuator" /\ ControlsOf(e, trace') # <<>>) =>
                     /\ instances'[e].priorValue =
                           ControlsOf(e, trace')[Len(ControlsOf(e, trace'))].value
                     /\ instances'[e].priorTime = Some([t |-> time', eps |-> 0])
       /\ ret'.op = "get_data" =>
             \A e \in DOMAIN instances :
                 instances[e].cls = "Actuator" =>
                     /\ e \in DOMAIN ret'.val <=> instances[e].priorTime # None
                     /\ e \in DOMAIN ret'.val =>
                           /\ ret'.val[e].v = <<instances[e].priorValue>>
                           /\ ret'.val[e].t = <<instances[e].priorTime>>
                     /\ instances'[e].priorValue = None
                     /\ instances'[e].priorTime = None]_vars

\* two different values applied in one step, the second one exposed
C7_Witness ==
    /\ ret.op = "get_data"
    /\ "Actuator_1" \in DOMAIN ret.val
    /\ Len(trace.controls) = 2
    /\ trace.controls[1].value # trace.controls[2].value
    /\ ret.val["Actuator_1"].v = <<trace.controls[2].value>>
    /\ ret.val["Actuator_1"].t = <<Some([t |-> time, eps |-> 0])>>

\* C8 as stated, its last part: the getLastValue after a setControl with a
\* zero or absent value shows (None, time).
C8_ZeroOrAbsentShowsNone ==
    (/\ ret.op = "getLastValue"
     /\ ret.after.op = "setControl"
     /\ ret.after.arg \in {None, Some(0)})
        => ret.val = <<None, Some([t |-> ret.after.t, eps |-> 0])>>

\* C8 amended: setControl(value, time) mutates the oracle tap position iff
\* value is present and non-zero; a zero or absent value leaves the oracle
\* unchanged but is still stored, and the next getLastValue then shows the
\* stored pair once: (None, time) for an absent value, (0, time) for zero.
C8_SetControlStoresAndTaps ==
    [][/\ ret'.op = "setControl" =>
             /\ trace'.controls[1].tapped = (ret'.arg # None /\ ret'.arg # Some(0))
             /\ dssObj' = IF ret'.arg # None /\ ret'.arg # Some(0)
                          THEN [dssObj EXCEPT !.tap = ret'.arg[1]]
                          ELSE dssObj
             /\ instances'[ret'.eid].priorValue = ret'.arg
             /\ instances'[ret'.eid].priorTime = Some([t |-> ret'.t, eps |-> 0])
       /\ (ret'.op = "getLastValue" /\ ret.op = "setControl") =>
             /\ ret'.val = <<ret.arg, Some([t |-> ret.t, eps |-> 0])>>
             /\ instances'[ret'.eid].priorValue = None
             /\ instances'[ret'.eid].priorTime = None]_vars

\* a zero stored after the tap was set to 1: read back as (0, time), tap still 1
C8_Witness ==
    /\ ret.op = "getLastValue"
    /\ ret.after.op = "setControl"
    /\ ret.after.arg = Some(0)
    /\ ret.val = <<Some(0), Some([t |-> ret.after.t, eps |-> 0])>>
    /\ dssObj.tap = 1

\* C9: once every end event of the schedule has fired the active-event set is
\* empty, and at every time Normal is true iff the active-event set is empty.
C9_ActiveSetEmptiesAndNormal ==
    /\ (\A i \in DOMAIN scheduled_events : scheduled_events[i].type # "end")
          => active_events = {}
    /\ get_event_state(active_events).Normal <=> active_events = {}
    /\ ret.op = "get_data" =>
          \A e \in DOMAIN ret.val :
              ret.val[e].event_state[1].Normal <=> active_events = {}

\* a schedule of two pairs run to its last end event
C9_Witness ==
    /\ StepReturned
    /\ enable_events = 1
    /\ event_interval = 300
    /\ Len(planned_events) = 5
    /\ scheduled_events = <<>>
    /\ trace.fired # <<>>
    /\ trace.fired[Len(trace.fired)].type = "end"
    /\ active_events = {}

\* the paired disturbances of the schedule: the index of a start followed by
\* its end
Pairs ==
    {i \in 1..(Len(planned_events) - 1) :
        /\ planned_events[i].type = "start"
        /\ planned_events[i + 1].type = "end"
        /\ planned_events[i + 1].args = planned_events[i].args}

\* no other start of the schedule has the effect and target of the i-th
Alone(i) ==
    \A j \in DOMAIN planned_events :
        (j # i /\ planned_events[j].type = "start") =>
            \/ planned_events[j].func # planned_events[i].func
            \/ planned_events[j].args # planned_events[i].args

\* the flag of the kind of an effect
FlagOf(func, active) ==
    IF func = "apply_fault" THEN get_event_state(active).Fault
    ELSE get_event_state(active).LoadChange

\* C10: for a paired disturbance with start S and duration D, the only one of
\* its kind, the flag of its kind after the step at time t is false for
\* t < S, true for S <= t < S + D and false from t = S + D on.
C10_FlagFollowsWindow ==
    \A i \in Pairs :
        Alone(i) =>
            /\ planned_events[i + 1].time - planned_events[i].time \in
                  {FaultDuration, LoadDuration}
            /\ FlagOf(planned_events[i].func, active_events) =
                  (planned_events[i].time <= time /\ time < planned_events[i + 1].time)

\* a fault at 300 for 100, read after the step at 400: the flag is down again
C10_Witness ==
    /\ StepReturned
    /\ time = 400
    /\ prev_step = 300
    /\ \E i \in Pairs :
          /\ Alone(i)
          /\ planned_events[i].func = "apply_fault"
          /\ planned_events[i].time = 300
    /\ ~get_event_state(active_events).Fault


\* C11: the readings of a tick come after its disturbance events.  In the
\* outputs read after a step at t no event with trigger time <= t is still
\* scheduled, the flags are those of the active set, and every reading was
\* taken from the engine state the events left: the line is in fault iff the
\* Fault flag is set, the load is surged iff the LoadChange flag is set.
C11_ReadingsAfterEvents ==
    (ret.op = "get_data" /\ time >= 0) =>
        \A e \in DOMAIN ret.val :
            /\ \A i \in DOMAIN scheduled_events : scheduled_events[i].time > time
            /\ ret.val[e].event_state[1] = get_event_state(active_events)
            /\ ret.val[e].v[1] # None
            /\ (ret.val[e].v[1][1].dss.line = "fault") <=> ret.val[e].event_state[1].Fault
            /\ (ret.val[e].v[1][1].dss.load = "surge")
                  <=> ret.val[e].event_state[1].LoadChange

\* a fault whose start fired in the step at 300, seen by the reading of 300
C11_Witness ==
    /\ ret.op = "get_data"
    /\ time = 300
    /\ "Sensor_1" \in DOMAIN ret.val
    /\ ret.val["Sensor_1"].event_state[1].Fault
    /\ ret.val["Sensor_1"].v[1][1].dss.line = "fault"
    /\ \E i \in DOMAIN trace.fired :
          /\ trace.fired[i].func = "apply_fault"
          /\ trace.fired[i].time = 300
          /\ KnownTarget(trace.fired[i])

\* C12: a single Sensor with period P, stepped from 0 on at times that never
\* pass the wake time last returned: no step fails, each step returns the
\* smallest multiple of P greater than its time, and the outputs after a step
\* hold a sample of the sensor (value and timestamp present) exactly when the
\* step's time is a multiple of P.
C12_SensorSamplesOnPeriod ==
    "Sensor_1" \in DOMAIN instances =>
        LET P == instances["Sensor_1"].step_size
        IN /\ raised = ""
           /\ ret.op = "step" => ret.val = Some(((time \div P) + 1) * P)
           /\ (ret.op = "get_data" /\ time >= 0) =>
                 /\ "Sensor_1" \in DOMAIN ret.val <=> time % P = 0
                 /\ "Sensor_1" \in DOMAIN ret.val =>
                       /\ ret.val["Sensor_1"].v[1] # None
                       /\ ret.val["Sensor_1"].t[1] = Some([t |-> time, eps |-> 1])

\* period 200: the step at 300, between two samples, returns 400
C12_Witness ==
    /\ StepReturned
    /\ "Sensor_1" \in DOMAIN instances
    /\ instances["Sensor_1"].step_size = 200
    /\ prev_step = 200
    /\ time = 300
    /\ ret.val = Some(400)
    /\ instances["Sensor_1"].priorTime = None

\* C13: get_data after a step has an entry for a Sensor, Phasor, SmartMeter or
\* Prober iff the device holds a sample of this tick, and the entry is three
\* one-element lists: the sample's value, its timestamp (present, of this
\* tick) and the event state; it has an entry for an Actuator iff the pair
\* the actuator held had a timestamp, and that entry is the pair.
C13_EntryIffNewSample ==
    [][(ret'.op = "get_data" /\ time >= 0) =>
          \A e \in DOMAIN instances :
              /\ e \in DOMAIN ret'.val <=> instances[e].priorTime # None
              /\ e \in DOMAIN ret'.val =>
                    /\ Len(ret'.val[e].v) = 1
                    /\ Len(ret'.val[e].t) = 1
                    /\ Len(ret'.val[e].event_state) = 1
                    /\ ret'.val[e].t[1] = instances[e].priorTime
                    /\ ret'.val[e].event_state[1] = get_event_state(active_events)
                    /\ instances[e].cls = "Actuator" =>
                          ret'.val[e].v[1] = instances[e].priorValue
                    /\ instances[e].cls # "Actuator" =>
                          /\ ret'.val[e].v[1] # None
                          /\ ret'.val[e].t[1][1].t = time
                          /\ instances'[e].priorTime = instances[e].priorTime]_vars

\* outputs at 200 with the sensor (period 300) and the prober (period 300)
\* left out, the phasor (period 200) and the actuator in
C13_Witness ==
    /\ ret.op = "get_data"
    /\ time = 200
    /\ DOMAIN instances = EIDS
    /\ DOMAIN ret.val = {"Phasor_1", "Actuator_1"}
    /\ ret.val["Actuator_1"].v = <<Some(1)>>
    /\ ret.val["Phasor_1"].v[1][1].TS = Some([t |-> 200, eps |-> 1])

\* C14 as stated: a step in which an engine read raises still returns a next
\* wake time, and every other device that samples at that time has its sample.
C14_ReadFailureNotFatal ==
    (ret.op = "step" /\ trace.fail.event = 0 /\ trace.fail.read # {}) =>
        /\ raised = ""
        /\ ret.val # None
        /\ \A e \in DOMAIN instances \ trace.fail.read :
              (IsScheduled(e) /\ time % instances[e].step_size = 0)
                  => instances[e].priorTime = Some([t |-> time, eps |-> 1])

\* C15: an effect that raises in the event loop ends the step.  The failure
\* reaches the caller and no wake time is returned; the events before it have
\* fired, no event is removed from the schedule, no control is applied
\* whatever the inputs, no device is sampled and the queue is not touched.
C15_EffectFailureFatal ==
    [][(ret'.op = "step" /\ trace'.fail.event # 0) =>
          /\ raised' = "OracleError"
          /\ ret'.val = None
          /\ trace'.controls = <<>>
          /\ instances' = instances
          /\ next_steps' = next_steps
          /\ next_step' = next_step
          /\ scheduled_events' = scheduled_events
          /\ Len(trace'.fired) < trace'.fail.event
          /\ time' # time => dssObj'.loads = dssObj.loads + trace'.loadGen_cnt]_vars

\* the fault of 300 raises half-way in a step that was given a control value,
\* after the restore_load before it in the schedule went through
C15_Witness ==
    /\ ret.op = "step"
    /\ raised = "OracleError"
    /\ trace.fail.event # 0
    /\ trace.fail.partial
    /\ time = 300
    /\ trace.inputs # <<>>
    /\ trace.inputs[1].v # <<>>
    /\ trace.fired # <<>>
    /\ dssObj.line = "partial"
    /\ DOMAIN instances = {"Sensor_1", "Phasor_1", "Actuator_1"}

\* C16 as stated: no event whose target the effects do not know is ever in
\* the schedule, and none is ever fired.
C16_UnknownTargetNeverScheduled ==
    /\ \A i \in DOMAIN scheduled_events : KnownTarget(scheduled_events[i])
    /\ \A i \in DOMAIN trace.fired : KnownTarget(trace.fired[i])

\* C17 as stated: create under an id that exists fails and leaves the
\* instances as they are; create with a model that is none of the five fails
\* and registers nothing.
C17_CreateRejects ==
    [][ret'.op = "create" =>
          /\ ret'.val[1] \in DOMAIN instances =>
                (raised' # "" /\ instances' = instances)
          /\ ret'.model \notin Models =>
                (raised' # "" /\ DOMAIN instances' = DOMAIN instances)]_vars

\* C18 as stated: with events enabled the schedule init leaves is either the
\* test event alone or a randomized schedule without the test event.
C18_OnePolicy ==
    (initialized /\ enable_events # 0) =>
        \/ planned_events = <<TestEvent>>
        \/ /\ planned_events # <<>>
           /\ \A i \in DOMAIN planned_events : planned_events[i] # TestEvent

\* what schedule_events added to the schedule: all but the test event
RandomPart == SelectSeq(planned_events, LAMBDA e : e # TestEvent)

\* the menu entry of a start event, the end event that entry pairs it with
MenuOf(e) == {k \in DOMAIN possible_events :
                 /\ possible_events[k].func = e.func
                 /\ possible_events[k].args = e.args}
EndOf(e, k) == Event(e.time + possible_events[k].duration,
                     possible_events[k].resolution, possible_events[k].args, "end")

\* C19: the randomized schedule has exactly one start event at each of the
\* times 0, I, 2I, ... up to the horizon and at no other time; every start is
\* an entry of the menu and has exactly one end event, at its time plus the
\* entry's duration, with the entry's inverse effect on the same target; every
\* end event is the end of a start that comes before it in the schedule.
C19_RandomScheduleIsPaired ==
    (initialized /\ enable_events # 0) =>
        LET R      == RandomPart
            starts == {i \in DOMAIN R : R[i].type = "start"}
            ends   == {j \in DOMAIN R : R[j].type = "end"}
        IN /\ {R[i].time : i \in starts}
                 = {k * event_interval : k \in 0..(SimDuration \div event_interval)}
           /\ \A i, j \in starts : R[i].time = R[j].time => i = j
           /\ DOMAIN R = starts \cup ends
           /\ \A i \in starts :
                 /\ Cardinality(MenuOf(R[i])) = 1
                 /\ \A k \in MenuOf(R[i]) :
                       Cardinality({j \in ends : R[j] = EndOf(R[i], k)}) = 1
           /\ \A j \in ends :
                 \E i \in starts : i < j /\ \E k \in MenuOf(R[i]) : R[j] = EndOf(R[i], k)

\* interval 300 under horizon 300: a load change at 0 and a fault at 300
C19_Witness ==
    /\ initialized
    /\ enable_events # 0
    /\ event_interval = 300
    /\ Len(RandomPart) = 4
    /\ RandomPart[1] = Event(0, "change_load", "6110.1", "start")
    /\ RandomPart[2] = Event(LoadDuration, "restore_load", "6110.1", "end")
    /\ RandomPart[3] = Event(300, "apply_fault", "6054-6110", "start")
    /\ RandomPart[4] = Event(300 + FaultDuration, "remove_fault", "6054-6110", "end")

\* C20: nothing cancels a scheduled event.  A step at t fires every event of
\* the schedule with trigger time <= t, end events included, whatever was
\* fired before and whatever else is due, and leaves every other event in the
\* schedule.
C20_DueEventsFire ==
    [][ret'.op = "step" =>
          \A i \in DOMAIN scheduled_events :
              LET e == scheduled_events[i]
              IN IF e.time <= time'
                 THEN /\ \E k \in DOMAIN trace'.fired : trace'.fired[k] = e
                      /\ \A k \in DOMAIN scheduled_events' : scheduled_events'[k] # e
                 ELSE /\ \E k \in DOMAIN scheduled_events' : scheduled_events'[k] = e
                      /\ \A k \in DOMAIN trace'.fired : trace'.fired[k] # e]_vars

\* the end of the load change of 0 fires at 500, alone, after the fault
\* scheduled behind it has started (300) and ended (400)
C20_Witness ==
    /\ StepReturned
    /\ time = 500
    /\ prev_step = 400
    /\ trace.fired = <<Event(500, "restore_load", "6110.1", "end")>>
    /\ planned_events[4] = Event(300, "apply_fault", "6054-6110", "start")
    /\ scheduled_events = <<>>
    /\ active_events = {}

\* C21 as stated, its order: the events a step fires, fire by trigger time
\* (and by insertion among equal times).
C21_FiredInTimeOrder ==
    ret.op = "step" =>
        \A i, j \in DOMAIN trace.fired :
            i < j => trace.fired[i].time <= trace.fired[j].time

\* C21 amended: a step fires every event with trigger time <= its time, in
\* the order of insertion in the schedule whatever the trigger times; the
\* events fired and their order are a function of the schedule and the time.
C21_FiredInInsertionOrder ==
    [][ret'.op = "step" =>
          trace'.fired = SelectSeq(scheduled_events, LAMBDA e : e.time <= time')]_vars

\* the first step, at 500: the end of the load change of 0 (trigger 500)
\* fires before the start scheduled for 300
C21_Witness ==
    /\ StepReturned
    /\ prev_step = -1
    /\ time = 500
    /\ Len(trace.fired) = 5
    /\ trace.fired[3] = Event(500, "restore_load", "6110.1", "end")
    /\ trace.fired[4].type = "start"
    /\ trace.fired[4].time = 300

\* the label an effect adds to, or discards from, the active-event set
LabelOf(e) ==
    IF e.func \in {"apply_fault", "remove_fault"}
    THEN "Fault_6054-6110" ELSE "LoadChange_6110.1"

\* C22: the active-event set records membership only.  In a step that fires
\* one event (on a known target): a start whose label is in the set leaves the
\* set as it is, and adds the label otherwise; an end whose label is not in
\* the set leaves the set as it is, and removes the label otherwise, however
\* many starts have added it.
C22_LabelsAreASet ==
    [][(ret'.op = "step" /\ Len(trace'.fired) = 1 /\ KnownTarget(trace'.fired[1])) =>
          LET e == trace'.fired[1]
          IN /\ (e.type = "start" /\ LabelOf(e) \in active_events)
                   => active_events' = active_events
             /\ (e.type = "start" /\ LabelOf(e) \notin active_events)
                   => active_events' = active_events \cup {LabelOf(e)}
             /\ (e.type = "end" /\ LabelOf(e) \notin active_events)
                   => active_events' = active_events
             /\ (e.type = "end" /\ LabelOf(e) \in active_events)
                   => active_events' = active_events \ {LabelOf(e)}]_vars

\* load changes at 0 and 100: the end of the second fires alone at 600, after
\* the end of the first (500) has discarded the label
C22_Witness ==
    /\ StepReturned
    /\ time = 600
    /\ prev_step = 500
    /\ trace.fired = <<Event(600, "restore_load", "6110.1", "end")>>
    /\ planned_events[2] = Event(0, "change_load", "6110.1", "start")
    /\ planned_events[4] = Event(100, "change_load", "6110.1", "start")
    /\ "LoadChange_6110.1" \notin active_events

\* C23: update(t) of a Sensor, Phasor, SmartMeter or Prober with t mod period
\* not 0 sets the last value and the last timestamp to None, and the
\* getLastValue that follows it returns (None, None), whatever was sampled
\* before.
C23_OffTickClears ==
    [][/\ (ret'.op = "updateValues" /\ ret'.t % instances[ret'.eid].step_size # 0) =>
             /\ instances'[ret'.eid].priorValue = None
             /\ instances'[ret'.eid].priorTime = None
       /\ (/\ ret'.op = "getLastValue"
           /\ ret.op = "updateValues"
           /\ ret.t % instances[ret.eid].step_size # 0) =>
             ret'.val = <<None, None>>]_vars

\* a prober of period 2 updated at 1, off its period, then read
C23_Witness ==
    /\ ret.op = "getLastValue"
    /\ ret.eid = "Prober_1.0.1"
    /\ instances["Prober_1.0.1"].step_size = 2
    /\ ret.after.op = "updateValues"
    /\ ret.after.t = 1
    /\ ret.val = <<None, None>>

\* C24 as stated: every getLastValue of a Sensor, Phasor, SmartMeter or Prober
\* leaves the device as it was, and returns what the getLastValue before it
\* returned.
C24_ReadChangesNothing ==
    [][(ret'.op = "getLastValue" /\ instances[ret'.eid].cls # "Actuator") =>
          /\ instances' = instances
          /\ ret.op = "getLastValue" => ret'.val = ret.val]_vars

\* C24 amended: consecutive getLastValue calls of a Sensor, Phasor, SmartMeter
\* or Prober return the same pair.  A Sensor or Prober is left as it was by
\* every call; the first call on a Phasor or SmartMeter that holds a sample
\* writes the timestamp into the payload (TS), the calls after it change
\* nothing.
C24_ReadIdempotent ==
    [][(ret'.op = "getLastValue" /\ instances[ret'.eid].cls # "Actuator") =>
          LET dev == instances[ret'.eid]
          IN /\ ret'.val[2] = dev.priorTime
             /\ instances'[ret'.eid].priorTime = dev.priorTime
             /\ instances'[ret'.eid].priorValue = ret'.val[1]
             /\ (dev.cls \in {"Sensor", "Prober"} \/ dev.priorValue = None) =>
                   /\ ret'.val[1] = dev.priorValue
                   /\ instances' = instances
             /\ (dev.cls \in {"Phasor", "Smartmeter"} /\ dev.priorValue # None) =>
                   ret'.val[1] = Some([dev.priorValue[1] EXCEPT !.TS = dev.priorTime])
             /\ ret.op = "getLastValue" =>
                   /\ ret'.val = ret.val
                   /\ instances' = instances]_vars

\* a phasor read twice in a row while it holds a sample
C24_Witness ==
    /\ ret.op = "getLastValue"
    /\ ret.after.op = "getLastValue"
    /\ ret.eid = "Phasor_1"
    /\ ret.val[1] # None
    /\ ret.val[1][1].TS = ret.val[2]
    /\ instances["Phasor_1"].priorValue = ret.val[1]

\* C25 as stated: the last timestamp of every Sensor, Phasor, SmartMeter and
\* Prober is None or a multiple of the device's period plus one
\* time_diff_resolution, and the last value is None iff the timestamp is.
C25_TimestampOnPeriodPlusEps ==
    \A e \in DOMAIN instances :
        instances[e].cls \in {"Sensor", "Phasor", "Smartmeter", "Prober"} =>
            /\ instances[e].priorTime # None =>
                  /\ instances[e].priorTime[1].t % instances[e].step_size = 0
                  /\ instances[e].priorTime[1].eps = 1
            /\ instances[e].priorValue = None <=> instances[e].priorTime = None

\* C27: every step updates every Prober (it holds a sample of the step's time
\* iff that time is on its period) and no Prober puts a wake time in the
\* queue: every entry of the queue, and so every wake time a step returns, is
\* a multiple of the period of a Sensor, Phasor or SmartMeter, and with
\* Probers only the queue stays empty.
C27_ProbersPolledNotScheduled ==
    /\ \A i \in DOMAIN next_steps :
          \E e \in DOMAIN instances :
              /\ IsScheduled(e)
              /\ next_steps[i] > 0
              /\ next_steps[i] % instances[e].step_size = 0
    /\ ret.op = "step" =>
          \A e \in DOMAIN instances :
              instances[e].cls = "Prober" =>
                  /\ instances[e].priorTime # None
                        <=> time % instances[e].step_size = 0
                  /\ instances[e].priorTime # None
                        => instances[e].priorTime = Some([t |-> time, eps |-> 0])

\* a sensor of period 200 and a prober of period 300: the step at 300 samples
\* the prober and returns 400
C27_Witness ==
    /\ StepReturned
    /\ DOMAIN instances = {"Sensor_1", "Prober_1.0.1"}
    /\ instances["Sensor_1"].step_size = 200
    /\ instances["Prober_1.0.1"].step_size = 300
    /\ time = 300
    /\ instances["Prober_1.0.1"].priorTime = Some([t |-> 300, eps |-> 0])
    /\ next_steps = <<400>>
    /\ ret.val = Some(400)

\* C28: noise of standard deviation 0 is the identity: the payload a Phasor
\* or SmartMeter of error 0 holds is made from exactly what the engine
\* returns for the circuit state of the step that sampled it.
C28_ZeroNoiseIsIdentity ==
    \A e \in DOMAIN instances :
        /\ instances[e].cls \in {"Phasor", "Smartmeter"}
        /\ instances[e].error = 0
        /\ instances[e].priorValue # None
        => instances[e].priorValue[1].V = getCktElementState(dssObj)

\* a step after load generation sampled a phasor of error 0 and a smart
\* meter of error 1 whose payload is off the engine's value
C28_Witness ==
    /\ StepReturned
    /\ time > 0
    /\ dssObj.loads > 0
    /\ DOMAIN instances = {"Phasor_1", "SmartMeter_1"}
    /\ instances["Phasor_1"].error = 0
    /\ instances["Phasor_1"].priorValue # None
    /\ instances["Phasor_1"].priorValue[1].V = getCktElementState(dssObj)
    /\ instances["SmartMeter_1"].error = 1
    /\ instances["SmartMeter_1"].priorValue # None
    /\ instances["SmartMeter_1"].priorValue[1].V # getCktElementState(dssObj)

\* C29: after a step at time t the flag of a kind of disturbance is true
\* whenever a fired disturbance of that kind (on a known target) has
\* start <= t < start + duration, also when two disturbances of one label
\* overlap: the end of the earlier one leaves the flag up while the later
\* one is within its window.
C29_FlagUpWhileAnyWindowOpen ==
    ret.op = "step" =>
        \A i \in Pairs :
            /\ KnownTarget(planned_events[i])
            /\ planned_events[i].time <= time
            /\ time < planned_events[i + 1].time
            => FlagOf(planned_events[i].func, active_events)

\* C30: the phases of a step run in the order load generation, disturbance
\* events, actuation, scheduled-device sampling, prober sampling, wake-time
\* query.  The loads are set even when an effect raises; an effect that
\* raises leaves the controls unapplied and the devices unsampled; otherwise
\* every due event has fired and every present control is applied, and each
\* Sensor and then each Prober, up to the first read that raises, holds a
\* sample of the state the loads, the events and the controls of this step
\* left; the devices from that read on are untouched; the wake-time query
\* fails only after all of them are sampled.
C30_PhasesInOrder ==
    [][ret'.op = "step" =>
          LET f   == trace'.fail
              seq == SelectSeq(order, IsScheduled) \o SelectSeq(order, IsProber)
              Taken(e) ==
                  IF time' % instances[e].step_size = 0
                  THEN /\ instances'[e].priorTime =
                             Some([t |-> time', eps |-> IF IsProber(e) THEN 0 ELSE 1])
                       /\ instances'[e].priorValue = Some(getCktElementState(dssObj'))
                  ELSE /\ instances'[e].priorTime = None
                       /\ instances'[e].priorValue = None
          IN /\ dssObj'.loads = dssObj.loads + trace'.loadGen_cnt
             /\ f.event # 0 =>
                   /\ trace'.controls = <<>>
                   /\ dssObj'.tap = dssObj.tap
                   /\ instances' = instances
             /\ f.event = 0 =>
                   /\ \A i \in DOMAIN scheduled_events' :
                         scheduled_events'[i].time > time'
                   /\ trace'.controls = ExpectedControls(trace'.inputs, 1)
                   /\ trace'.controls # <<>> =>
                         dssObj'.tap = trace'.controls[Len(trace'.controls)].value[1]
                   /\ \A k \in DOMAIN seq :
                         IF \E j \in 1..k : seq[j] \in f.read
                         THEN instances'[seq[k]] = instances[seq[k]]
                         ELSE Taken(seq[k])
                   /\ raised' \in {"", "IndexError"} <=> f.read = {}]_vars

\* the first step, with a control value: loads set, a disturbance on a known
\* target fired, the tap moved, and the sensor and the prober both hold the
\* state with the new load, the disturbance and the tap
C30_Witness ==
    /\ StepReturned
    /\ prev_step = -1
    /\ DOMAIN instances = {"Sensor_1", "Actuator_1", "Prober_1.0.1"}
    /\ trace.loadGen_cnt > 0
    /\ \E i \in DOMAIN trace.fired : KnownTarget(trace.fired[i])
    /\ trace.controls # <<>>
    /\ dssObj.tap = 1
    /\ dssObj.loads > 0
    /\ dssObj.line # "original" \/ dssObj.load # "original"
    /\ instances["Sensor_1"].priorValue = Some(getCktElementState(dssObj))
    /\ instances["Prober_1.0.1"].priorValue = Some(getCktElementState(dssObj))


(***************************************************************************)
(* schedule_events on its own, pass by pass: init has put its test event   *)
(* in the schedule and calls schedule_events(sim_duration, event_interval).*)
(* ret holds the call: its horizon, current_time, and whether it returned. *)
(***************************************************************************)
Horizons == 0..MaxHorizon
ScheduleIntervals == 0..MaxInterval

\* the passes of the while loop made so far
Passes == (Len(scheduled_events) - 1) \div 2

\* the passes the model follows a call for: one more than any call with a
\* positive interval makes
MaxPasses == MaxHorizon + 2

InitSchedule ==
    /\ initialized = FALSE
    /\ instances = <<>>
    /\ order = <<>>
    /\ loadgen_interval = 1
    /\ event_interval \in ScheduleIntervals
    /\ enable_events = 1
    /\ time = -1
    /\ prev_step = -1
    /\ next_step = 0
    /\ next_steps = <<>>
    /\ scheduled_events = <<TestEvent>>
    /\ active_events = {}
    /\ dssObj = NewDSS
    /\ \E d \in Horizons :
          ret = [op |-> "schedule_events", sim_duration |-> d, current_time |-> 0,
                 done |-> FALSE, val |-> None]
    /\ raised = ""
    /\ trace = NoTrace
    /\ planned_events = <<>>

ScheduleFrame ==
    UNCHANGED <<initialized, instances, order, loadgen_interval, event_interval,
                enable_events, time, prev_step, next_step, next_steps,
                active_events, dssObj, raised, trace, planned_events>>

\* a pass with < for <= in the test of the loop
SchedulePass_Strict(k) ==
    /\ ~ret.done
    /\ ret.current_time < ret.sim_duration
    /\ Passes < MaxPasses
    /\ LET e == possible_events[k]
       IN scheduled_events' = scheduled_events \o
             <<Event(ret.current_time, e.func, e.args, "start"),
               Event(ret.current_time + e.duration, e.resolution, e.args, "end")>>
    /\ ret' = [ret EXCEPT !.current_time = @ + event_interval]
    /\ ScheduleFrame

\* one pass of the while loop, k being what random.choice draws
SchedulePass(k) ==
    /\ ~ret.done
    /\ ret.current_time <= ret.sim_duration
    /\ Passes < MaxPasses
    /\ LET e == possible_events[k]
       IN scheduled_events' = scheduled_events \o
             <<Event(ret.current_time, e.func, e.args, "start"),
               Event(ret.current_time + e.duration, e.resolution, e.args, "end")>>
    /\ ret' = [ret EXCEPT !.current_time = @ + event_interval]
    /\ ScheduleFrame

\* the test of the loop fails: schedule_events returns
ScheduleReturn ==
    /\ ~ret.done
    /\ ret.current_time > ret.sim_duration
    /\ ret' = [ret EXCEPT !.done = TRUE]
    /\ UNCHANGED scheduled_events
    /\ ScheduleFrame

NextSchedule ==
    \/ \E k \in DOMAIN possible_events : SchedulePass(k)
    \/ ScheduleReturn

\* the loop runs on: a pass or the return that can be taken is taken
SpecScheduleLive == InitSchedule /\ [][NextSchedule]_vars /\ WF_vars(NextSchedule)

\* the values of a list that setControl is called with, in list order
PresentOf(vlist) == SelectSeq(vlist, Present)

\* the last non-zero value of a list of present values, else the tap as it is
RECURSIVE LastTap(_, _)
LastTap(vals, tap) ==
    IF vals = <<>> THEN tap
    ELSE LastTap(Tail(vals), IF vals[1].n # 0 THEN vals[1].n ELSE tap)

\* C31: the timestamp get_data delivers with an actuator value is the time of
\* the step that applied it, whatever origination times came with the
\* inputs; of several non-null values in one step each non-zero one sets the
\* tap in list order and only the last one is kept for delivery.
C31_ActuatorStampIsStepTime ==
    [][/\ (ret'.op = "step" /\ trace'.inputs # <<>>
            /\ PresentOf(trace'.inputs[1].v) # <<>>) =>
             LET a  == trace'.inputs[1].eid
                 pv == PresentOf(trace'.inputs[1].v)
             IN /\ instances'[a].priorTime = Some([t |-> time', eps |-> 0])
                /\ instances'[a].priorValue = Some(pv[Len(pv)].n)
                /\ dssObj'.tap = LastTap(pv, dssObj.tap)
                /\ Len(trace'.controls) = Len(pv)
       /\ ret'.op = "get_data" =>
             \A a \in DOMAIN instances :
                 (instances[a].cls = "Actuator" /\ instances[a].priorTime # None) =>
                     /\ a \in DOMAIN ret'.val
                     /\ ret'.val[a].t = <<instances[a].priorTime>>
                     /\ ret'.val[a].v = <<instances[a].priorValue>>]_vars

\* the values 1 and 2, originated at 100, applied by the step at 200
\* and delivered: value 2 stamped 200, the tap at 2
C31_Witness ==
    /\ ret.op = "get_data"
    /\ raised = ""
    /\ time = 2 * TimeUnit
    /\ trace.inputs # <<>>
    /\ trace.inputs[1].v = <<InInt(1), InInt(2)>>
    /\ trace.inputs[1].t = <<TimeUnit, TimeUnit>>
    /\ "Actuator_1" \in DOMAIN ret.val
    /\ ret.val["Actuator_1"].v = <<Some(2)>>
    /\ ret.val["Actuator_1"].t = <<Some([t |-> 2 * TimeUnit, eps |-> 0])>>
    /\ dssObj.tap = 2

\* C32: every scheduled event fires exactly once over any sequence of steps.
\* A step at t after a step at p (p = -1 before the first) fires exactly the
\* events of the schedule init made with p < trigger time <= t, and leaves
\* in the schedule exactly those with trigger time > t: the steps cut the
\* time line in windows, each event is in one window, a step of the same
\* time fires nothing, and no step fires an event before its trigger time.
\* (A step in which an effect raises removes nothing and ends the run: C15.)
C32_EachEventFiresOnce ==
    [][ret'.op = "step" =>
          /\ trace'.fired =
                SelectSeq(planned_events, LAMBDA e : time < e.time /\ e.time <= time')
          /\ scheduled_events' =
                SelectSeq(planned_events, LAMBDA e : e.time > time')]_vars

\* a second step at 300: the start of 300 fired in the first one, is out of
\* the schedule and does not fire again
C32_Witness ==
    /\ StepReturned
    /\ time = 300
    /\ prev_step = 300
    /\ trace.dup = 2
    /\ trace.fired = <<>>
    /\ \E i \in DOMAIN planned_events :
          planned_events[i].time = 300 /\ planned_events[i].type = "start"
    /\ \A i \in DOMAIN scheduled_events : scheduled_events[i].time > 300
    /\ scheduled_events # <<>>

\* the smallest multiple of a period strictly greater than t
NextMultiple(P, t) == ((t \div P) + 1) * P

\* the earliest next multiple over the Sensor, Phasor and SmartMeter devices
MinNext(t) ==
    LET ms == {NextMultiple(instances[e].step_size, t) :
                  e \in {x \in DOMAIN instances : IsScheduled(x)}}
    IN CHOOSE m \in ms : \A n \in ms : m <= n

\* C33: with the first step at 0 and every later step at a time not before
\* the last one and not after the wake time last returned, the step at t
\* returns the minimum over the Sensor, Phasor and SmartMeter devices of the
\* smallest multiple of the period greater than t, and the wake times
\* returned never decrease.
C33_WakeIsEarliestNextPeriod ==
    [][ret'.op = "step" =>
          /\ raised' = ""
          /\ ret'.val = Some(MinNext(time'))
          /\ ret'.val[1] >= next_step]_vars

\* periods 200 and 300: after 0 and 200 the step at 300 returns 400
C33_Witness ==
    /\ StepReturned
    /\ DOMAIN instances = {"Sensor_1", "Phasor_1"}
    /\ instances["Sensor_1"].step_size = 200
    /\ instances["Phasor_1"].step_size = 300
    /\ prev_step = 200
    /\ time = 300
    /\ ret.val = Some(400)
    /\ next_steps = <<400, 600>>

\* C34: after every step that returns, every entry left in the pending-wake
\* set is greater than the step's time, also when steps of one time have put
\* the same wake time in it several times.
C34_QueueAheadOfTime ==
    (raised = "" /\ time >= 0) =>
        \A i \in DOMAIN next_steps : next_steps[i] > time

\* period 200: two steps at 0 put 200 twice, the step at 200 took both out
\* and a second step at 200 left 400 twice
C34_Witness ==
    /\ StepReturned
    /\ time = 200
    /\ prev_step = 200
    /\ trace.dup = 2
    /\ next_steps = <<400, 400>>
    /\ ret.val = Some(400)

\* the number of entries of a queue with one value
CountOf(q, v) == Cardinality({i \in DOMAIN q : q[i] = v})

\* the number of Sensor, Phasor and SmartMeter devices that are on their
\* period at t and whose next period is v
DueFor(t, v) ==
    Cardinality({e \in DOMAIN instances :
                    /\ IsScheduled(e)
                    /\ t % instances[e].step_size = 0
                    /\ t + instances[e].step_size = v})

\* C35: the wake time a step returns depends only on the periods of the
\* devices and on the times of the steps.  The pending-wake set a step
\* leaves is made from the set it found, its time and the periods alone (the
\* entries above the time, plus time + period for each device on its
\* period), and the step returns its smallest entry, or fails when there is
\* none, whatever the control values, the noise drawn and the disturbances.
C35_WakeFromPeriodsAndTimes ==
    [][ret'.op = "step" =>
          LET vals == {next_steps[i] : i \in DOMAIN next_steps}
                         \cup {next_steps'[i] : i \in DOMAIN next_steps'}
                         \cup {time' + instances[e].step_size : e \in DOMAIN instances}
          IN /\ \A v \in vals :
                   CountOf(next_steps', v) =
                      IF v > time' THEN CountOf(next_steps, v) + DueFor(time', v) ELSE 0
             /\ \A i, j \in DOMAIN next_steps' :
                   i < j => next_steps'[i] <= next_steps'[j]
             /\ IF next_steps' = <<>>
                THEN raised' = "IndexError" /\ ret'.val = None
                ELSE raised' = "" /\ ret'.val = Some(next_steps'[1])]_vars

\* a step that fired a disturbance, applied a control value and sampled the
\* phasor with noise, and returned the next period
C35_Witness ==
    /\ StepReturned
    /\ DOMAIN instances = {"Phasor_1", "Actuator_1"}
    /\ \E i \in DOMAIN trace.fired : KnownTarget(trace.fired[i])
    /\ trace.controls # <<>>
    /\ dssObj.tap = 1
    /\ instances["Phasor_1"].priorValue # None
    /\ instances["Phasor_1"].priorValue[1].V.noise # 0
    /\ instances["Phasor_1"].step_size = 300
    /\ time = 300
    /\ ret.val = Some(600)

\* C36: over steps of non-decreasing times t_1 <= ... <= t_n the engine gets
\* 1 + floor(t_n / interval) - floor(t_1 / interval) load updates in all,
\* however many steps repeat a time.  The first step brings the count to 1,
\* and every later step, of a new time or not, keeps the count minus
\* floor(time / interval) as it was.
C36_LoadUpdatesTotal ==
    [][ret'.op = "step" =>
          IF time < 0
          THEN dssObj'.loads = 1
          ELSE dssObj'.loads - (time' \div loadgen_interval) =
                  dssObj.loads - (time \div loadgen_interval)]_vars

\* interval 80, steps from 0 to 300 with the last time stepped twice:
\* 1 + floor(300/80) - floor(0/80) = 4 load updates
C36_Witness ==
    /\ StepReturned
    /\ loadgen_interval = 80
    /\ time = 300
    /\ prev_step = 300
    /\ trace.dup = 2
    /\ trace.loadGen_cnt = 0
    /\ dssObj.loads = 4

\* the entries of an output that are not an actuator's
NonActuatorEntries(val) ==
    [e \in {x \in DOMAIN val : ~Find(x, "Actuator")} |-> val[e]]

\* C37 as stated: get_data changes nothing except the stored pairs of the
\* actuators: the queue, the schedule, the active-event set, the time and
\* the last value and timestamp of every Sensor, Phasor, SmartMeter and
\* Prober are as before, and a second get_data in the same tick returns the
\* same non-actuator entries and no actuator entry.
C37_GetDataOnlyClearsActuators ==
    [][ret'.op = "get_data" =>
          /\ <<next_steps, scheduled_events, active_events, time>>' =
                <<next_steps, scheduled_events, active_events, time>>
          /\ \A e \in DOMAIN instances :
                instances[e].cls # "Actuator" =>
                    /\ instances'[e].priorValue = instances[e].priorValue
                    /\ instances'[e].priorTime = instances[e].priorTime
          /\ ret.op = "get_data" => ret'.val = NonActuatorEntries(ret.val)]_vars

\* C37 amended: get_data leaves the queue, the schedule, the active-event
\* set, the time, the last timestamp of every Sensor, Phasor, SmartMeter and
\* Prober and the last value of every Sensor and Prober unchanged; the last
\* value of a Phasor or SmartMeter that holds a sample gets the timestamp
\* written into it (TS) and is otherwise unchanged; every actuator pair is
\* cleared; a second get_data in the same tick returns the same non-actuator
\* entries and no actuator entry.
C37_GetDataFrame ==
    [][ret'.op = "get_data" =>
          /\ <<next_steps, scheduled_events, active_events, time>>' =
                <<next_steps, scheduled_events, active_events, time>>
          /\ \A e \in DOMAIN instances :
                LET dev == instances[e]
                IN /\ dev.cls = "Actuator" =>
                         /\ instances'[e].priorValue = None
                         /\ instances'[e].priorTime = None
                   /\ dev.cls # "Actuator" =>
                         instances'[e].priorTime = dev.priorTime
                   /\ (dev.cls \in {"Sensor", "Prober"} \/ dev.priorValue = None) =>
                         instances'[e] = dev
                   /\ (dev.cls \in {"Phasor", "Smartmeter"} /\ dev.priorValue # None) =>
                         instances'[e].priorValue =
                            Some([dev.priorValue[1] EXCEPT !.TS = dev.priorTime])
          /\ ret.op = "get_data" =>
                /\ ret'.val = NonActuatorEntries(ret.val)
                /\ \A e \in DOMAIN instances :
                      instances[e].cls # "Actuator" => instances'[e] = instances[e]]_vars

\* a get_data after the one that delivered the control value of the last
\* step: the phasor's entry again, with its TS, and no actuator entry
C37_Witness ==
    /\ ret.op = "get_data"
    /\ raised = ""
    /\ DOMAIN instances = EIDS
    /\ trace.controls # <<>>
    /\ "Actuator_1" \notin DOMAIN ret.val
    /\ "Phasor_1" \in DOMAIN ret.val
    /\ ret.val["Phasor_1"].v[1][1].TS = Some([t |-> time, eps |-> 1])
    /\ instances["Phasor_1"].priorValue = ret.val["Phasor_1"].v[1]
    /\ "Sensor_1" \in DOMAIN ret.val

\* the prefixes get_event_state tests for
EventPrefixes == {"Fault_", "GeneratorTrip_", "LoadChange_"}

\* C38: in every reachable state the flags of the event state agree: Normal
\* is true iff none of Fault, GeneratorTrip and LoadChange is, every label
\* of the active-event set having one of the three prefixes; the event state
\* of every output entry agrees in the same way.
C38_FlagsConsistent ==
    /\ \A label \in active_events :
          \E prefix \in EventPrefixes : StartsWith(label, prefix)
    /\ LET es == get_event_state(active_events)
       IN es.Normal <=> ~(es.Fault \/ es.GeneratorTrip \/ es.LoadChange)
    /\ (ret.op = "get_data" /\ raised = "") =>
          \A e \in DOMAIN ret.val :
              LET es == ret.val[e].event_state[1]
              IN es.Normal <=> ~(es.Fault \/ es.GeneratorTrip \/ es.LoadChange)

\* outputs at 300 with a fault inside a load change: two flags up, Normal
\* down
C38_Witness ==
    /\ ret.op = "get_data"
    /\ raised = ""
    /\ time = 300
    /\ active_events = {"Fault_6054-6110", "LoadChange_6110.1"}
    /\ "Sensor_1" \in DOMAIN ret.val
    /\ ret.val["Sensor_1"].event_state[1] =
          [Normal |-> FALSE, Fault |-> TRUE, GeneratorTrip |-> FALSE,
           LoadChange |-> TRUE]

\* the event state of a run without disturbance
NormalState ==
    [Normal |-> TRUE, Fault |-> FALSE, GeneratorTrip |-> FALSE, LoadChange |-> FALSE]

\* C39: with disturbances disabled at init (baseline mode) the schedule is
\* empty, no step fires an event, the active-event set is empty in every
\* reachable state, and every output entry has Normal true and the other
\* flags false.
C39_BaselineHasNoEvents ==
    enable_events = 0 =>
        /\ scheduled_events = <<>>
        /\ planned_events = <<>>
        /\ trace.fired = <<>>
        /\ active_events = {}
        /\ get_event_state(active_events) = NormalState
        /\ (ret.op = "get_data" /\ raised = "") =>
              \A e \in DOMAIN ret.val : ret.val[e].event_state = <<NormalState>>

\* baseline outputs at 300, where a run with disturbances has fired its
\* events: the phasor's entry is Normal
C39_Witness ==
    /\ ret.op = "get_data"
    /\ raised = ""
    /\ initialized
    /\ enable_events = 0
    /\ time = 300
    /\ "Phasor_1" \in DOMAIN ret.val
    /\ ret.val["Phasor_1"].event_state = <<NormalState>>
    /\ dssObj.line = "original"
    /\ dssObj.load = "original"

\* the start events schedule_events has appended
StartsAppended ==
    Cardinality({i \in 2..Len(scheduled_events) : scheduled_events[i].type = "start"})

\* C40: schedule_events returns for every positive interval and every finite
\* horizon, and has then appended floor(horizon / interval) + 1 start
\* events; with interval 0 it never returns: current_time stays 0 and the
\* test of the loop holds at every pass.
C40_ScheduleTerminates ==
    /\ [](ret.done =>
            /\ event_interval > 0
            /\ StartsAppended = (ret.sim_duration \div event_interval) + 1
            /\ Len(scheduled_events) = 1 + 2 * StartsAppended)
    /\ [](event_interval > 0 => <>ret.done)
    /\ [](event_interval = 0 =>
            ~ret.done /\ ret.current_time = 0 /\ ret.current_time <= ret.sim_duration)

\* horizon 4, interval 2: returned after the starts of 0, 2 and 4
C40_Witness ==
    /\ ret.op = "schedule_events"
    /\ ret.done
    /\ ret.sim_duration = 4
    /\ event_interval = 2
    /\ ret.current_time = 6
    /\ StartsAppended = 3
    /\ scheduled_events[6].time = 4
    /\ scheduled_events[6].type = "start"

=============================================================================
